---------------------------- MODULE Spec2Model ----------------------------
(***************************************************************************)
(* security-news-digest: the deduplication engine (src/dedup.py), the gap   *)
(* finder and gap cause classifier (src/analyzer.py), and the ranking and   *)
(* the analyze-gap loop (src/main.py), modelled as state machines.          *)
(* Python strings are TLA+ strings; positions are 1-based.                  *)
(***************************************************************************)
EXTENDS Integers, Sequences, FiniteSets, TLC

VARIABLES
    pc,              \* position of the running function
    articles,        \* deduplicate: the input list
    used,            \* deduplicate: used[i]
    groups,          \* deduplicate: the groups built so far (lists of input positions)
    group,           \* deduplicate: the group of the current anchor
    i,               \* deduplicate: outer loop index
    j,               \* deduplicate: inner loop index
    gap,             \* classify_gap_cause: the gap (title, url)
    feeds_config,    \* classify_gap_cause: the configured feeds
    articles_fetched,\* classify_gap_cause: the fetched articles (url, published)
    groups_deduped,  \* classify_gap_cause: the dedup groups (lists of articles)
    config,          \* classify_gap_cause: the settings mapping
    now,             \* classify_gap_cause: datetime.now(UTC), in days
    idx,             \* classify_gap_cause: index of the running for loop
    result,          \* classify_gap_cause: the returned mapping
    gpc,             \* find_gaps: position in the function
    reference_articles, \* find_gaps: the reference list (title, url)
    digest_articles, \* find_gaps: the digest list (title, url)
    digest_urls,     \* find_gaps: the set of normalized digest URLs
    digest_titles_norm, \* find_gaps: the list of normalized digest titles
    gaps,            \* find_gaps: the gaps found so far
    ref,             \* find_gaps: index of the reference item in the outer loop
    dt,              \* find_gaps: index of the digest title in the inner loop
    gap_index,       \* run_analyze_gap: index of the gap being classified
    call_arg,        \* normalize_title, extract_cves, rank_groups: the arguments
    call_ret,        \* normalize_title, extract_cves, rank_groups: the returned value
    parsed_feeds,    \* fetch_feeds: what feedparser.parse yields for each configured feed
    cutoff,          \* fetch_feeds: datetime.now(UTC) - timedelta(days=window_days), in days
    feed_index,      \* fetch_feeds: index of the feed in the outer loop
    entry_index,     \* fetch_feeds: index of the entry in the inner loop
    fetch_articles,  \* fetch_feeds: the articles collected so far
    trusted_names,   \* run_analyze_gap: set(config.get("trusted_sources", []))
    digest_file,     \* _write_digest: the content of the digest file
    config_file,     \* interactive_session: the content of the configuration file
    new_config,      \* interactive_session: the changed copy of config awaiting confirmation
    cmd,             \* interactive_session: the parsed command
    input_line,      \* interactive_session: the line that input() returned last
    output,          \* interactive_session: the message printed last
    llm_calls,       \* summarize, _llm_call: the LLM calls made so far, with what each returned
    llm_result,      \* summarize: llm_result; _llm_call: out
    results          \* summarize: the entries built so far

dvars == <<articles, used, groups, group, i, j>>
cvars == <<gap, feeds_config, articles_fetched, groups_deduped, config, now, idx, result>>
gvars == <<gpc, reference_articles, digest_articles, digest_urls, digest_titles_norm,
           gaps, ref, dt, gap_index>>
fvars == <<call_arg, call_ret>>
nvars == <<parsed_feeds, cutoff, feed_index, entry_index, fetch_articles, trusted_names>>
svars == <<config_file, new_config, cmd, input_line, output>>
lvars == <<llm_calls, llm_result, results>>
xvars == <<digest_file, svars, lvars>>
ovars == <<nvars, xvars>>
vars == <<pc, dvars, cvars, gvars, fvars, ovars>>

\* fetch_feeds is not running
FetchIdle ==
    /\ parsed_feeds = <<>> /\ cutoff = 0 /\ feed_index = 1 /\ entry_index = 1
    /\ fetch_articles = <<>> /\ trusted_names = {}

\* no digest file is written and no session is open
ExtraIdle ==
    /\ digest_file = ""
    /\ config_file = <<>> /\ new_config = <<>> /\ cmd = <<>>
    /\ input_line = "" /\ output = ""
    /\ llm_calls = <<>> /\ llm_result = <<>> /\ results = <<>>

\* the machines that a run of another function leaves alone
OthersIdle == FetchIdle /\ ExtraIdle

-----------------------------------------------------------------------------
(* Strings *)

Char(s, k) == SubSeq(s, k, k)

LowerLetters == "abcdefghijklmnopqrstuvwxyz"
UpperLetters == "ABCDEFGHIJKLMNOPQRSTUVWXYZ"
Digits == "0123456789"
\* the whitespace of the model's alphabet (str.strip, regex \s)
Whitespace == {" ", "\t", "\n", "\r", "\f"}

LetterIndex(letters, c) ==
    IF \E k \in 1..Len(letters) : Char(letters, k) = c
    THEN CHOOSE k \in 1..Len(letters) : Char(letters, k) = c
    ELSE 0

\* str.upper and str.lower on one character, as tables over the letters
ToUpper ==
    [c \in {Char(LowerLetters, k) : k \in 1..Len(LowerLetters)} |->
        Char(UpperLetters, LetterIndex(LowerLetters, c))]

ToLower ==
    [c \in {Char(UpperLetters, k) : k \in 1..Len(UpperLetters)} |->
        Char(LowerLetters, LetterIndex(UpperLetters, c))]

UpperChar(c) == IF c \in DOMAIN ToUpper THEN ToUpper[c] ELSE c

LowerChar(c) == IF c \in DOMAIN ToLower THEN ToLower[c] ELSE c

RECURSIVE Upper(_)
Upper(s) == IF s = "" THEN "" ELSE UpperChar(Char(s, 1)) \o Upper(Tail(s))

RECURSIVE Lower(_)
Lower(s) == IF s = "" THEN "" ELSE LowerChar(Char(s, 1)) \o Lower(Tail(s))

DigitSet == {Char(Digits, k) : k \in 1..Len(Digits)}

IsDigit(c) == c \in DigitSet

RECURSIVE LStrip(_)
LStrip(s) ==
    IF s # "" /\ Char(s, 1) \in Whitespace THEN LStrip(Tail(s)) ELSE s

RECURSIVE RStrip(_)
RStrip(s) ==
    IF s # "" /\ Char(s, Len(s)) \in Whitespace
    THEN RStrip(SubSeq(s, 1, Len(s) - 1))
    ELSE s

\* str.strip()
Strip(s) == RStrip(LStrip(s))

\* str.endswith(suffix)
EndsWith(s, suffix) ==
    /\ Len(suffix) <= Len(s)
    /\ SubSeq(s, Len(s) - Len(suffix) + 1, Len(s)) = suffix

\* str.startswith(prefix)
StartsWith(s, prefix) ==
    /\ Len(prefix) <= Len(s)
    /\ SubSeq(s, 1, Len(prefix)) = prefix

\* needle in s
Contains(s, needle) ==
    \E k \in 1..(Len(s) - Len(needle) + 1) :
        SubSeq(s, k, k + Len(needle) - 1) = needle

-----------------------------------------------------------------------------
(* dedup.extract_cves *)

CveYearDigits == 4
CveMinDigits == 4
CveMaxDigits == 7

\* the number of consecutive digits of s from position p on
RECURSIVE DigitRun(_, _)
DigitRun(s, p) ==
    IF p <= Len(s) /\ IsDigit(Char(s, p)) THEN 1 + DigitRun(s, p + 1) ELSE 0

Min(a, b) == IF a <= b THEN a ELSE b

\* the length of the match of CVE-\d{4}-\d{4,7} at position p of s, 0 if none
CveMatchLen(s, p) ==
    LET q == p + 4 + CveYearDigits          \* where the second "-" must be
    IN IF /\ q <= Len(s)
          /\ SubSeq(s, p, p + 3) = "CVE-"
          /\ DigitRun(s, p + 4) >= CveYearDigits
          /\ Char(s, q) = "-"
          /\ DigitRun(s, q + 1) >= CveMinDigits
       THEN (q - p + 1) + Min(DigitRun(s, q + 1), CveMaxDigits)
       ELSE 0

\* re.findall: the non-overlapping matches, scanning from the left
RECURSIVE FindAllCves(_, _)
FindAllCves(s, p) ==
    IF p > Len(s) THEN {}
    ELSE LET m == CveMatchLen(s, p)
         IN IF m > 0
            THEN {SubSeq(s, p, p + m - 1)} \cup FindAllCves(s, p + m)
            ELSE FindAllCves(s, p + 1)

extract_cves(text) == FindAllCves(Upper(text), 1)

-----------------------------------------------------------------------------
(* dedup.normalize_title *)

SOURCE_SUFFIXES ==
    << " - The Hacker News",
       " - BleepingComputer",
       " - SecurityWeek",
       " - Dark Reading",
       " - Krebs on Security",
       " - GBHackers on Security",
       " - Ars Technica",
       " - CISA",
       " | The Hacker News",
       " | BleepingComputer" >>

\* for suffix in SOURCE_SUFFIXES: if t.endswith(suffix): t = t[:-len(suffix)]
\* (every table entry is tried, in table order, on the current t)
RECURSIVE StripSuffixes(_, _)
StripSuffixes(t, k) ==
    IF k > Len(SOURCE_SUFFIXES) THEN t
    ELSE LET suffix == SOURCE_SUFFIXES[k]
         IN IF EndsWith(t, suffix)
            THEN StripSuffixes(SubSeq(t, 1, Len(t) - Len(suffix)), k + 1)
            ELSE StripSuffixes(t, k + 1)

\* the position of the first "]" of t at or after p that no "\n" precedes, 0 if none
RECURSIVE BracketEnd(_, _)
BracketEnd(t, p) ==
    IF p > Len(t) \/ Char(t, p) = "\n" THEN 0
    ELSE IF Char(t, p) = "]" THEN p
    ELSE BracketEnd(t, p + 1)

\* re.sub(r"^\[.*?\]\s*", "", t)
StripBracketTag(t) ==
    IF t # "" /\ Char(t, 1) = "["
    THEN LET e == BracketEnd(t, 2)
         IN IF e = 0 THEN t ELSE LStrip(SubSeq(t, e + 1, Len(t)))
    ELSE t

normalize_title(title) ==
    Strip(Lower(StripBracketTag(StripSuffixes(Strip(title), 1))))

-----------------------------------------------------------------------------
(* dedup.titles_similar: difflib.SequenceMatcher(None, a, b).ratio()         *)

ThresholdNum == 75
ThresholdDen == 100

\* the length of the common run of a from x and b from y, inside a[..ahi], b[..bhi]
RECURSIVE RunLen(_, _, _, _, _, _)
RunLen(a, b, x, y, ahi, bhi) ==
    IF x > ahi \/ y > bhi \/ Char(a, x) # Char(b, y) THEN 0
    ELSE 1 + RunLen(a, b, x + 1, y + 1, ahi, bhi)

\* SequenceMatcher.find_longest_match on a[alo..ahi], b[blo..bhi]: the longest
\* block, the one starting earliest in a, and of those earliest in b
LongestMatch(a, b, alo, ahi, blo, bhi) ==
    LET size(x, y) == RunLen(a, b, x, y, ahi, bhi)
        cand == {<<x, y, size(x, y)>> : x \in alo..ahi, y \in blo..bhi}
        best == CHOOSE c \in cand :
                    \A d \in cand :
                        \/ c[3] > d[3]
                        \/ c[3] = d[3] /\ c[1] < d[1]
                        \/ c[3] = d[3] /\ c[1] = d[1] /\ c[2] <= d[2]
    IN best

\* the total size of SequenceMatcher.get_matching_blocks on the two ranges
RECURSIVE MatchingSize(_, _, _, _, _, _)
MatchingSize(a, b, alo, ahi, blo, bhi) ==
    IF alo > ahi \/ blo > bhi THEN 0
    ELSE LET m == LongestMatch(a, b, alo, ahi, blo, bhi)
         IN IF m[3] = 0 THEN 0
            ELSE m[3]
                 + MatchingSize(a, b, alo, m[1] - 1, blo, m[2] - 1)
                 + MatchingSize(a, b, m[1] + m[3], ahi, m[2] + m[3], bhi)

\* ratio() >= threshold, ratio = 2.0 * M / T and 1.0 when T = 0
titles_similar(a, b) ==
    LET T == Len(a) + Len(b)
        M == MatchingSize(a, b, 1, Len(a), 1, Len(b))
    IN IF T = 0 THEN TRUE
       ELSE 2 * M * ThresholdDen >= ThresholdNum * T

-----------------------------------------------------------------------------
(* dedup.deduplicate *)

MaxArticles == 3

\* the articles the input lists are drawn from: title, url, summary
\* (an article without a summary reads as summary "", art.get("summary", ""))
ArticlePool ==
    { [title |-> "CVE-2024-1234 vuln", url |-> "https://a.com", summary |-> ""],
      [title |-> "New flaw", url |-> "https://b.com",
       summary |-> "Details on CVE-2024-1234"],
      [title |-> "Big Vuln - The Hacker News", url |-> "https://a.com", summary |-> ""],
      [title |-> "[Breaking] Big Vuln", url |-> "https://c.com", summary |-> ""],
      [title |-> "big vulns", url |-> "", summary |-> "cve-2023-99999 fixed"],
      [title |-> "[PR]", url |-> "", summary |-> "see CVE-2023-99999"] }

ArticleLists == UNION {[1..n -> ArticlePool] : n \in 0..MaxArticles}

\* art["title"] + " " + art.get("summary", "")
ArticleText(art) == art.title \o " " \o art.summary

\* mutant of UrlMatch: the URL rule also wants the CVE sets or the titles to agree
UrlMatchGuarded(art, other) ==
    /\ art.url # "" /\ art.url = other.url
    /\ \/ extract_cves(art.title) \cap extract_cves(other.title) # {}
       \/ titles_similar(normalize_title(art.title), normalize_title(other.title))

\* mutant of CveMatch: the summaries are not searched
CveMatchTitleOnly(art, other) ==
    LET cves_i == extract_cves(art.title)
        cves_j == extract_cves(other.title)
    IN cves_i # {} /\ cves_j # {} /\ (cves_i \cap cves_j) # {}

\* if url_i and url_i == other["url"]
UrlMatch(art, other) == art.url # "" /\ art.url = other.url

\* if cves_i and cves_j and cves_i & cves_j
CveMatch(art, other) ==
    LET cves_i == extract_cves(ArticleText(art))
        cves_j == extract_cves(ArticleText(other))
    IN cves_i # {} /\ cves_j # {} /\ (cves_i \cap cves_j) # {}

\* mutant of TitleMatch: the titles are compared as they are, not normalized
TitleMatchRaw(art, other) == titles_similar(art.title, other.title)

\* if titles_similar(norm_i, norm_j)
TitleMatch(art, other) ==
    titles_similar(normalize_title(art.title), normalize_title(other.title))

DedupInit ==
    /\ pc = "outer"
    /\ articles \in ArticleLists
    /\ used = [k \in 1..Len(articles) |-> FALSE]
    /\ groups = <<>>
    /\ group = <<>>
    /\ i = 1
    /\ j = 1
    /\ gap = [title |-> "", url |-> ""]
    /\ feeds_config = <<>>
    /\ articles_fetched = <<>>
    /\ groups_deduped = <<>>
    /\ config = <<>>
    /\ now = 0
    /\ idx = 1
    /\ result = <<>>
    /\ gpc = "idle"
    /\ reference_articles = <<>>
    /\ digest_articles = <<>>
    /\ digest_urls = {}
    /\ digest_titles_norm = <<>>
    /\ gaps = <<>>
    /\ ref = 1
    /\ dt = 1
    /\ gap_index = 1
    /\ call_arg = <<>>
    /\ call_ret = <<>>
    /\ OthersIdle

\* for i, art in enumerate(articles): if used[i]: continue
OuterSkip ==
    /\ pc = "outer" /\ i <= Len(articles) /\ used[i]
    /\ i' = i + 1
    /\ UNCHANGED <<fvars, ovars, cvars, gvars, pc, articles, used, groups, group, j>>

\* group = [art]; used[i] = True; the inner loop starts at i + 1
OpenGroup ==
    /\ pc = "outer" /\ i <= Len(articles) /\ ~used[i]
    /\ group' = <<i>>
    /\ used' = [used EXCEPT ![i] = TRUE]
    /\ j' = i + 1
    /\ pc' = "inner"
    /\ UNCHANGED <<fvars, ovars, cvars, gvars, articles, groups, i>>

\* for j in range(i + 1, len(articles)): if used[j]: continue
InnerSkip ==
    /\ pc = "inner" /\ j <= Len(articles) /\ used[j]
    /\ j' = j + 1
    /\ UNCHANGED <<fvars, ovars, cvars, gvars, pc, articles, used, groups, group, i>>

\* mutant of Take: the candidate joins the group but is not marked consumed
TakeUnmarked ==
    /\ group' = Append(group, j)
    /\ j' = j + 1
    /\ UNCHANGED <<fvars, ovars, cvars, gvars, pc, articles, used, groups, i>>

\* group.append(other); used[j] = True; continue
Take ==
    /\ group' = Append(group, j)
    /\ used' = [used EXCEPT ![j] = TRUE]
    /\ j' = j + 1
    /\ UNCHANGED <<fvars, ovars, cvars, gvars, pc, articles, groups, i>>

InnerUrl ==
    /\ pc = "inner" /\ j <= Len(articles) /\ ~used[j]
    /\ UrlMatch(articles[i], articles[j])
    /\ Take

\* mutant of InnerCve: the candidate is compared with the group's latest member
InnerCveChained ==
    /\ pc = "inner" /\ j <= Len(articles) /\ ~used[j]
    /\ ~UrlMatch(articles[i], articles[j])
    /\ CveMatch(articles[group[Len(group)]], articles[j])
    /\ Take

InnerCve ==
    /\ pc = "inner" /\ j <= Len(articles) /\ ~used[j]
    /\ ~UrlMatch(articles[i], articles[j])
    /\ CveMatch(articles[i], articles[j])
    /\ Take

InnerTitle ==
    /\ pc = "inner" /\ j <= Len(articles) /\ ~used[j]
    /\ ~UrlMatch(articles[i], articles[j])
    /\ ~CveMatch(articles[i], articles[j])
    /\ TitleMatch(articles[i], articles[j])
    /\ Take

\* no rule matches: the candidate stays unconsumed
InnerNoMatch ==
    /\ pc = "inner" /\ j <= Len(articles) /\ ~used[j]
    /\ ~UrlMatch(articles[i], articles[j])
    /\ ~CveMatch(articles[i], articles[j])
    /\ ~TitleMatch(articles[i], articles[j])
    /\ j' = j + 1
    /\ UNCHANGED <<fvars, ovars, cvars, gvars, pc, articles, used, groups, group, i>>

\* mutant of CloseGroup: the finished group is put in front
CloseGroupFront ==
    /\ pc = "inner" /\ j > Len(articles)
    /\ groups' = <<group>> \o groups
    /\ i' = i + 1
    /\ pc' = "outer"
    /\ UNCHANGED <<fvars, ovars, cvars, gvars, articles, used, group, j>>

\* groups.append(group), then the next i
CloseGroup ==
    /\ pc = "inner" /\ j > Len(articles)
    /\ groups' = Append(groups, group)
    /\ i' = i + 1
    /\ pc' = "outer"
    /\ UNCHANGED <<fvars, ovars, cvars, gvars, articles, used, group, j>>

\* return groups
DedupReturn ==
    /\ pc = "outer" /\ i > Len(articles)
    /\ pc' = "done"
    /\ UNCHANGED <<fvars, ovars, cvars, gvars, articles, used, groups, group, i, j>>

-----------------------------------------------------------------------------
(* analyzer: URL and settings helpers *)

\* str.rstrip("/")
RECURSIVE RStripSlash(_)
RStripSlash(s) ==
    IF s # "" /\ Char(s, Len(s)) = "/"
    THEN RStripSlash(SubSeq(s, 1, Len(s) - 1))
    ELSE s

\* mutant of _url_norm: the trailing slashes are kept
_url_norm_keep_slash(u) == Strip(u)

\* u.strip().rstrip("/")
_url_norm(u) == RStripSlash(Strip(u))

\* urlsplit: url.replace(b, "") for b in "\t", "\r", "\n"
RECURSIVE RemoveUnsafe(_)
RemoveUnsafe(s) ==
    IF s = "" THEN ""
    ELSE IF Char(s, 1) \in {"\t", "\r", "\n"} THEN RemoveUnsafe(Tail(s))
    ELSE Char(s, 1) \o RemoveUnsafe(Tail(s))

\* the first position of s, from p on, holding one of the characters cs; Len(s) + 1 if none
RECURSIVE FindAny(_, _, _)
FindAny(s, cs, p) ==
    IF p > Len(s) \/ Char(s, p) \in cs THEN p ELSE FindAny(s, cs, p + 1)

SchemeChars == LowerLetters \o UpperLetters \o Digits \o "+-."

\* urlsplit: the url with its scheme and ":" removed, when it has a scheme
AfterScheme(u) ==
    LET c == FindAny(u, {":"}, 1)
    IN IF /\ 1 < c /\ c <= Len(u)
          /\ LetterIndex(LowerLetters \o UpperLetters, Char(u, 1)) # 0
          /\ \A q \in 1..(c - 1) : LetterIndex(SchemeChars, Char(u, q)) # 0
       THEN SubSeq(u, c + 1, Len(u))
       ELSE u

\* the bracketed hosts of the model's URLs that ipaddress accepts as IPv6
IPv6Literals == {"::1"}

\* urlparse(url).netloc; ok is FALSE where urlparse raises ValueError
urlparse_netloc(url) ==
    LET u == AfterScheme(RemoveUnsafe(LStrip(url)))
    IN IF StartsWith(u, "//")
       THEN LET netloc == SubSeq(u, 3, FindAny(u, {"/", "?", "#"}, 3) - 1)
                open == FindAny(netloc, {"["}, 1)
                close == FindAny(netloc, {"]"}, 1)
                host == SubSeq(netloc, open + 1,
                               FindAny(netloc, {"]"}, open + 1) - 1)
            IN IF (open <= Len(netloc)) # (close <= Len(netloc))
               THEN [ok |-> FALSE, netloc |-> ""]
               ELSE IF open <= Len(netloc) /\ host \notin IPv6Literals
               THEN [ok |-> FALSE, netloc |-> ""]
               ELSE [ok |-> TRUE, netloc |-> netloc]
       ELSE [ok |-> TRUE, netloc |-> ""]

\* try: return urlparse(url).netloc.lower(); except Exception: return ""
_extract_domain(url) ==
    LET r == urlparse_netloc(url)
    IN IF r.ok THEN Lower(r.netloc) ELSE ""

\* the lowercased, non-empty netlocs of the feeds that have a url
_domains_from_feeds(feeds) ==
    { Lower(urlparse_netloc(feeds[n].url).netloc) :
        n \in {m \in 1..Len(feeds) :
                 feeds[m].url # "" /\ urlparse_netloc(feeds[m].url).ok} }
    \ {""}

\* the entries of a list-valued interest_keywords that are not blank
NotBlank(kw) == Strip(kw) # ""

_parse_interest_keywords(cfg) ==
    IF cfg.interest_keywords.kind = "list"
    THEN SelectSeq(cfg.interest_keywords.items, NotBlank)
    ELSE <<>>

\* mutant of _matches_interest: the comparison keeps the letter case
_matches_interest_cased(text, keywords) ==
    \E n \in 1..Len(keywords) : Contains(text, keywords[n])

\* any(k.lower() in text.lower() for k in keywords)
_matches_interest(text, keywords) ==
    \E n \in 1..Len(keywords) : Contains(Lower(text), Lower(keywords[n]))

DefaultWindowDays == 3

\* int(config.get("window_days", 3) or 3)
WindowDays(cfg) ==
    IF cfg.window_days = <<>> \/ cfg.window_days[1] = 0
    THEN DefaultWindowDays
    ELSE cfg.window_days[1]

\* datetime.now(UTC) - timedelta(days=window_days)
Cutoff == now - WindowDays(config)

DetailTitleLen == 80

\* rep.get("title", "")[:80]
DetailTitle(title) == SubSeq(title, 1, Min(Len(title), DetailTitleLen))

\* mutant of GroupCves: the summaries are not searched
RECURSIVE GroupCvesTitles(_, _)
GroupCvesTitles(g, n) ==
    IF n > Len(g) THEN {}
    ELSE extract_cves(g[n].title) \cup GroupCvesTitles(g, n + 1)

\* the CVE identifiers of all members of a group
RECURSIVE GroupCves(_, _)
GroupCves(g, n) ==
    IF n > Len(g) THEN {}
    ELSE extract_cves(g[n].title \o " " \o g[n].summary) \cup GroupCves(g, n + 1)

-----------------------------------------------------------------------------
(* analyzer.classify_gap_cause *)

MaxFetched == 2
MaxGroups == 2

GapPool ==
    { [title |-> "Linux kernel update", url |-> "https://example.com/x/"],
      [title |-> "CVE-2024-1234 exploited", url |-> "https://example.com/x"],
      [title |-> "Windows Patch", url |-> "https://missed.example.net/post"],
      [title |-> "cve-2023-0001 and CVE-2024-1234567", url |-> ""],
      [title |-> "Kernel[bad", url |-> "https://[bad/x"] }

FeedsPool ==
    { <<>>,
      << [name |-> "NoUrl", url |-> ""],
         [name |-> "Example", url |-> "https://Example.com/rss"] >> }

\* published is <<>> for None and <<t>> for a timestamp, in days
FetchedPool ==
    { [url |-> "https://example.com/x", published |-> <<7>>],
      [url |-> "https://example.com/x/", published |-> <<>>],
      [url |-> "", published |-> <<6>>] }

GroupPool ==
    { << [title |-> "Patch released for CVE-2024-1234", summary |-> ""] >>,
      << [title |->
            "Vendor ships an out-of-band fix for the widely deployed example server product line",
          summary |-> ""],
         [title |-> "Follow-up", summary |-> "also fixes cve-2024-1234567"] >> }

\* window_days is <<>> when the key is absent; interest_keywords is absent, a
\* list, or another kind of value
Setting(window_days, kind, items) ==
    [window_days |-> window_days,
     interest_keywords |-> [kind |-> kind, items |-> items]]

ConfigPool ==
    { Setting(<<>>, "absent", <<>>),
      Setting(<<0>>, "list", <<>>),
      Setting(<<1>>, "list", <<"windows">>),
      Setting(<<>>, "list", <<"", "KERNEL">>),
      Setting(<<1>>, "list", <<" ">>),
      Setting(<<0>>, "other", <<"linux">>) }

ClassifyInit ==
    /\ pc = "rule1"
    /\ gap \in GapPool
    /\ feeds_config \in FeedsPool
    /\ articles_fetched \in UNION {[1..n -> FetchedPool] : n \in 0..MaxFetched}
    /\ groups_deduped \in UNION {[1..n -> GroupPool] : n \in 0..MaxGroups}
    /\ config \in ConfigPool
    /\ now = 10
    /\ idx = 1
    /\ result = <<>>
    /\ articles = <<>>
    /\ used = <<>>
    /\ groups = <<>>
    /\ group = <<>>
    /\ i = 1
    /\ j = 1
    /\ gpc = "idle"
    /\ reference_articles = <<>>
    /\ digest_articles = <<>>
    /\ digest_urls = {}
    /\ digest_titles_norm = <<>>
    /\ gaps = <<>>
    /\ ref = 1
    /\ dt = 1
    /\ gap_index = 1
    /\ call_arg = <<>>
    /\ call_ret = <<>>
    /\ OthersIdle

Return(cause, detail, suggestion) ==
    /\ result' = [cause |-> cause, detail |-> detail, suggestion |-> suggestion]
    /\ pc' = "returned"
    /\ UNCHANGED <<fvars, ovars, dvars, gvars, gap, feeds_config, articles_fetched, groups_deduped,
                   config, now, idx>>

\* mutant of Goto: the gap's URL is normalized in place on the way to the next rule
GotoNormalizing(rule) ==
    /\ pc' = rule
    /\ idx' = 1
    /\ gap' = [gap EXCEPT !.url = _url_norm(gap.url)]
    /\ UNCHANGED <<fvars, ovars, dvars, gvars, feeds_config, articles_fetched, groups_deduped,
                   config, now, result>>

\* the next rule, its loop at the first element
Goto(rule) ==
    /\ pc' = rule
    /\ idx' = 1
    /\ UNCHANGED <<fvars, ovars, dvars, gvars, gap, feeds_config, articles_fetched, groups_deduped,
                   config, now, result>>

\* the next element of the running loop
Step ==
    /\ idx' = idx + 1
    /\ UNCHANGED <<fvars, ovars, pc, dvars, gvars, gap, feeds_config, articles_fetched, groups_deduped,
                   config, now, result>>

\* mutant of FeedMissing: the gap's domain is not required to be non-empty
FeedMissingAnyDomain ==
    /\ pc = "rule1"
    /\ _extract_domain(gap.url) \notin _domains_from_feeds(feeds_config)
    /\ Return("feed_missing", <<_extract_domain(gap.url)>>,
              <<_extract_domain(gap.url)>>)

\* 1) if gap_domain and gap_domain not in feed_domains: return feed_missing
FeedMissing ==
    /\ pc = "rule1"
    /\ _extract_domain(gap.url) # ""
    /\ _extract_domain(gap.url) \notin _domains_from_feeds(feeds_config)
    /\ Return("feed_missing", <<_extract_domain(gap.url)>>,
              <<_extract_domain(gap.url)>>)

FeedPresent ==
    /\ pc = "rule1"
    /\ ~ /\ _extract_domain(gap.url) # ""
         /\ _extract_domain(gap.url) \notin _domains_from_feeds(feeds_config)
    /\ Goto("rule2")

\* if gap_url and _url_norm(art.get("url", "")) == _url_norm(gap_url)
UrlHit(art) ==
    gap.url # "" /\ _url_norm(art.url) = _url_norm(gap.url)

\* mutant of Stale: a timestamp equal to the cutoff counts as outside the window
StaleAtCutoff(art) ==
    art.published # <<>> /\ art.published[1] <= Cutoff

\* if published and published < cutoff
Stale(art) ==
    art.published # <<>> /\ art.published[1] < Cutoff

\* 2) for art in articles_fetched: ... return outside_window
OutsideWindow ==
    /\ pc = "rule2" /\ idx <= Len(articles_fetched)
    /\ UrlHit(articles_fetched[idx])
    /\ Stale(articles_fetched[idx])
    /\ Return("outside_window",
              <<articles_fetched[idx].published[1], WindowDays(config)>>, <<>>)

WindowNext ==
    /\ pc = "rule2" /\ idx <= Len(articles_fetched)
    /\ ~(UrlHit(articles_fetched[idx]) /\ Stale(articles_fetched[idx]))
    /\ Step

\* mutant of WindowEnd: the CVE rule is passed over
WindowEndToInterest ==
    /\ pc = "rule2" /\ idx > Len(articles_fetched)
    /\ Goto("rule4")

WindowEnd ==
    /\ pc = "rule2" /\ idx > Len(articles_fetched)
    /\ Goto("rule3")

\* 3) gap_cves = extract_cves(gap_title); if gap_cves: for group in groups_deduped
MergedNoCves ==
    /\ pc = "rule3"
    /\ extract_cves(gap.title) = {}
    /\ Goto("rule4")

\* if group_cves and (gap_cves & group_cves): rep = group[0]; return dedup_merged
DedupMerged ==
    /\ pc = "rule3" /\ idx <= Len(groups_deduped)
    /\ extract_cves(gap.title) # {}
    /\ GroupCves(groups_deduped[idx], 1) # {}
    /\ extract_cves(gap.title) \cap GroupCves(groups_deduped[idx], 1) # {}
    /\ Return("dedup_merged", <<DetailTitle(groups_deduped[idx][1].title)>>, <<>>)

MergedNext ==
    /\ pc = "rule3" /\ idx <= Len(groups_deduped)
    /\ extract_cves(gap.title) # {}
    /\ ~ /\ GroupCves(groups_deduped[idx], 1) # {}
         /\ extract_cves(gap.title) \cap GroupCves(groups_deduped[idx], 1) # {}
    /\ Step

MergedEnd ==
    /\ pc = "rule3" /\ idx > Len(groups_deduped)
    /\ extract_cves(gap.title) # {}
    /\ Goto("rule4")

\* 4) if keywords and not _matches_interest(gap_title, keywords)
InterestFiltered ==
    /\ pc = "rule4"
    /\ _parse_interest_keywords(config) # <<>>
    /\ ~_matches_interest(gap.title, _parse_interest_keywords(config))
    /\ Return("interest_filtered", <<>>, <<>>)

InterestPass ==
    /\ pc = "rule4"
    /\ ~ /\ _parse_interest_keywords(config) # <<>>
         /\ ~_matches_interest(gap.title, _parse_interest_keywords(config))
    /\ Goto("rule5")

\* mutant of LowRank: an empty gap URL is compared like any other
LowRankAnyUrl ==
    /\ pc = "rule5" /\ idx <= Len(articles_fetched)
    /\ _url_norm(articles_fetched[idx].url) = _url_norm(gap.url)
    /\ Return("low_rank", <<>>, <<>>)

\* 5) for art in articles_fetched: if gap_url and same normalized URL: return low_rank
LowRank ==
    /\ pc = "rule5" /\ idx <= Len(articles_fetched)
    /\ UrlHit(articles_fetched[idx])
    /\ Return("low_rank", <<>>, <<>>)

LowRankNext ==
    /\ pc = "rule5" /\ idx <= Len(articles_fetched)
    /\ ~UrlHit(articles_fetched[idx])
    /\ Step

\* return unknown
Unknown ==
    /\ pc = "rule5" /\ idx > Len(articles_fetched)
    /\ Return("unknown", <<>>, <<>>)

-----------------------------------------------------------------------------
(* analyzer.find_gaps *)

MaxReference == 2
MaxDigest == 2

\* reference and digest items: title, url (an item without a url reads as url "")
ReferencePool ==
    { [title |-> "A", url |-> " https://example.com/a/ "],
      [title |-> "[PR] Big Vuln - CISA", url |-> "https://example.com/b"],
      [title |-> "[PR]", url |-> "/"],
      [title |-> "C", url |-> ""],
      [title |-> "Z", url |-> "https://example.com/a//"] }

DigestPool ==
    { [title |-> "Some title", url |-> "https://example.com/a"],
      [title |-> "big vulns", url |-> ""],
      [title |-> "", url |-> "/"],
      [title |-> "c", url |-> "https://example.com/a/"] }

GapsInit ==
    /\ gpc = "start"
    /\ reference_articles \in UNION {[1..n -> ReferencePool] : n \in 0..MaxReference}
    /\ digest_articles \in UNION {[1..n -> DigestPool] : n \in 0..MaxDigest}
    /\ digest_urls = {}
    /\ digest_titles_norm = <<>>
    /\ gaps = <<>>
    /\ ref = 1
    /\ dt = 1
    /\ gap_index = 1
    /\ call_arg = <<>>
    /\ call_ret = <<>>
    /\ OthersIdle
    /\ pc = "idle"
    /\ articles = <<>>
    /\ used = <<>>
    /\ groups = <<>>
    /\ group = <<>>
    /\ i = 1
    /\ j = 1
    /\ gap = [title |-> "", url |-> ""]
    /\ feeds_config = <<>>
    /\ articles_fetched = <<>>
    /\ groups_deduped = <<>>
    /\ config = <<>>
    /\ now = 0
    /\ idx = 1
    /\ result = <<>>

\* digest_urls = {_url_norm(a.get("url", "")) for a in digest_articles if a.get("url")}
\* digest_titles_norm = [normalize_title(a.get("title", "")) for a in digest_articles]
\* gaps = []
Precompute ==
    /\ gpc = "start"
    /\ digest_urls' = {_url_norm(digest_articles[n].url) :
                          n \in {m \in 1..Len(digest_articles) : digest_articles[m].url # ""}}
    /\ digest_titles_norm' = [n \in 1..Len(digest_articles) |->
                                 normalize_title(digest_articles[n].title)]
    /\ gaps' = <<>>
    /\ ref' = 1
    /\ gpc' = "ref"
    /\ UNCHANGED <<fvars, ovars, pc, dvars, cvars, gap_index, reference_articles, digest_articles, dt>>

\* ref_url = _url_norm(ref.get("url", ""))
RefUrl == _url_norm(reference_articles[ref].url)

\* ref_norm = normalize_title(ref_title)
RefNorm == normalize_title(reference_articles[ref].title)

\* if ref_url and ref_url in digest_urls: matched = True
UrlMatched ==
    /\ gpc = "ref" /\ ref <= Len(reference_articles)
    /\ RefUrl # "" /\ RefUrl \in digest_urls
    /\ ref' = ref + 1
    /\ UNCHANGED <<fvars, ovars, pc, dvars, cvars, gap_index, gpc, reference_articles, digest_articles,
                   digest_urls, digest_titles_norm, gaps, dt>>

\* else: ref_norm = normalize_title(ref_title); for dt in digest_titles_norm
UrlUnmatched ==
    /\ gpc = "ref" /\ ref <= Len(reference_articles)
    /\ ~(RefUrl # "" /\ RefUrl \in digest_urls)
    /\ dt' = 1
    /\ gpc' = "titles"
    /\ UNCHANGED <<fvars, ovars, pc, dvars, cvars, gap_index, reference_articles, digest_articles,
                   digest_urls, digest_titles_norm, gaps, ref>>

\* mutant of TitleMatches: empty normalized titles are compared like any other
TitleMatchesUnguarded(ref_norm, dtn) == titles_similar(ref_norm, dtn)

\* if dt and ref_norm and dedup.titles_similar(ref_norm, dt)
TitleMatches(ref_norm, dtn) ==
    dtn # "" /\ ref_norm # "" /\ titles_similar(ref_norm, dtn)

\* matched = True; break
TitleHit ==
    /\ gpc = "titles" /\ dt <= Len(digest_titles_norm)
    /\ TitleMatches(RefNorm, digest_titles_norm[dt])
    /\ ref' = ref + 1
    /\ gpc' = "ref"
    /\ UNCHANGED <<fvars, ovars, pc, dvars, cvars, gap_index, reference_articles, digest_articles,
                   digest_urls, digest_titles_norm, gaps, dt>>

TitleNext ==
    /\ gpc = "titles" /\ dt <= Len(digest_titles_norm)
    /\ ~TitleMatches(RefNorm, digest_titles_norm[dt])
    /\ dt' = dt + 1
    /\ UNCHANGED <<fvars, ovars, pc, dvars, cvars, gap_index, gpc, reference_articles, digest_articles,
                   digest_urls, digest_titles_norm, gaps, ref>>

\* if not matched: gaps.append({"title": ref_title, "url": ref.get("url", ""), "matched": False})
AppendGap ==
    /\ gpc = "titles" /\ dt > Len(digest_titles_norm)
    /\ gaps' = Append(gaps, [title |-> reference_articles[ref].title,
                             url |-> reference_articles[ref].url,
                             matched |-> FALSE])
    /\ ref' = ref + 1
    /\ gpc' = "ref"
    /\ UNCHANGED <<fvars, ovars, pc, dvars, cvars, gap_index, reference_articles, digest_articles,
                   digest_urls, digest_titles_norm, dt>>

\* return gaps
GapsReturn ==
    /\ gpc = "ref" /\ ref > Len(reference_articles)
    /\ gpc' = "done"
    /\ UNCHANGED <<fvars, ovars, pc, dvars, cvars, gap_index, reference_articles, digest_articles,
                   digest_urls, digest_titles_norm, gaps, ref, dt>>

-----------------------------------------------------------------------------
(* find_gaps as a function of its two arguments *)

\* mutant of TitleScan: only the first digest title is compared
TitleScanFirstOnly(ref_norm, titles, k) ==
    k <= Len(titles) /\ k = 1 /\ TitleMatches(ref_norm, titles[k])

\* for dt in digest_titles_norm: if ... titles_similar(ref_norm, dt): matched = True; break
RECURSIVE TitleScan(_, _, _)
TitleScan(ref_norm, titles, k) ==
    IF k > Len(titles) THEN FALSE
    ELSE IF TitleMatches(ref_norm, titles[k]) THEN TRUE
    ELSE TitleScan(ref_norm, titles, k + 1)

\* matched, for one reference item
Matched(item, urls, titles) ==
    IF _url_norm(item.url) # "" /\ _url_norm(item.url) \in urls THEN TRUE
    ELSE TitleScan(normalize_title(item.title), titles, 1)

\* the gaps of the reference items from position k on
RECURSIVE GapsFrom(_, _, _, _)
GapsFrom(reference, k, urls, titles) ==
    IF k > Len(reference) THEN <<>>
    ELSE (IF Matched(reference[k], urls, titles) THEN <<>>
          ELSE << [title |-> reference[k].title, url |-> reference[k].url,
                   matched |-> FALSE] >>)
         \o GapsFrom(reference, k + 1, urls, titles)

\* find_gaps(reference_articles, digest_articles)
find_gaps(reference, digest) ==
    GapsFrom(reference, 1,
             {_url_norm(digest[n].url) : n \in {m \in 1..Len(digest) : digest[m].url # ""}},
             [n \in 1..Len(digest) |-> normalize_title(digest[n].title)])

-----------------------------------------------------------------------------
(* main.run_analyze_gap: find_gaps, then classify_gap_cause on every gap *)

AnalyzeReferencePool ==
    { [title |-> "C", url |-> "https://example.com/c"],
      [title |-> "CVE-2024-1234 exploited", url |-> "https://example.com/x"],
      [title |-> "Big Vuln", url |-> "/"],
      [title |-> "Linux kernel update", url |-> " https://example.com/a/ "] }

AnalyzeDigests ==
    { <<>>,
      << [title |-> "Some title", url |-> "https://example.com/a"],
         [title |-> "big vulns", url |-> ""] >> }

\* the fetched articles, the dedup groups and the settings of a run
AnalyzeContexts ==
    { [fetched |-> <<>>, groups |-> <<>>, config |-> Setting(<<3>>, "absent", <<>>)],
      [fetched |-> << [url |-> "https://example.com/c/", published |-> <<2>>],
                      [url |-> "https://example.com/x", published |-> <<>>] >>,
       groups |-> << << [title |-> "Patch released for CVE-2024-1234", summary |-> ""] >> >>,
       config |-> Setting(<<1>>, "list", <<"windows">>)],
      [fetched |-> << [url |-> "https://example.com/x/", published |-> <<9>>] >>,
       groups |-> << << [title |-> "Follow-up", summary |-> "cve-2023-0001"] >> >>,
       config |-> Setting(<<>>, "list", <<"c">>)] }

AnalyzeInit ==
    /\ gpc = "start"
    /\ reference_articles \in UNION {[1..n -> AnalyzeReferencePool] : n \in 0..MaxReference}
    /\ digest_articles \in AnalyzeDigests
    /\ digest_urls = {}
    /\ digest_titles_norm = <<>>
    /\ gaps = <<>>
    /\ ref = 1
    /\ dt = 1
    /\ gap_index = 1
    /\ call_arg = <<>>
    /\ call_ret = <<>>
    /\ OthersIdle
    /\ pc = "classify"
    /\ feeds_config \in FeedsPool
    /\ \E ctx \in AnalyzeContexts :
           /\ articles_fetched = ctx.fetched
           /\ groups_deduped = ctx.groups
           /\ config = ctx.config
    /\ gap = [title |-> "", url |-> ""]
    /\ now = 10
    /\ idx = 1
    /\ result = <<>>
    /\ articles = <<>>
    /\ used = <<>>
    /\ groups = <<>>
    /\ group = <<>>
    /\ i = 1
    /\ j = 1

\* mutant of ClassifyGap: every call is handed the first gap
ClassifyFirstGap ==
    /\ gpc = "done" /\ pc = "classify" /\ gap_index <= Len(gaps)
    /\ gap' = gaps[1]
    /\ idx' = 1
    /\ pc' = "rule1"
    /\ UNCHANGED <<fvars, ovars, dvars, gvars, feeds_config, articles_fetched, groups_deduped,
                   config, now, result>>

\* for g in gaps: classify_gap_cause(g, config.get("feeds", []), articles, groups, config)
ClassifyGap ==
    /\ gpc = "done" /\ pc = "classify" /\ gap_index <= Len(gaps)
    /\ gap' = gaps[gap_index]
    /\ idx' = 1
    /\ pc' = "rule1"
    /\ UNCHANGED <<fvars, ovars, dvars, gvars, feeds_config, articles_fetched, groups_deduped,
                   config, now, result>>

\* g["cause_info"] = the returned mapping
AttachCause ==
    /\ gpc = "done" /\ pc = "returned"
    /\ gaps' = [gaps EXCEPT ![gap_index] =
                   [f \in DOMAIN gaps[gap_index] \cup {"cause_info"} |->
                       IF f = "cause_info" THEN result ELSE gaps[gap_index][f]]]
    /\ gap_index' = gap_index + 1
    /\ pc' = "classify"
    /\ UNCHANGED <<fvars, ovars, dvars, cvars, gpc, reference_articles, digest_articles,
                   digest_urls, digest_titles_norm, ref, dt>>

\* the loop over the gaps ends
Classified ==
    /\ gpc = "done" /\ pc = "classify" /\ gap_index > Len(gaps)
    /\ pc' = "classified"
    /\ UNCHANGED <<fvars, ovars, dvars, cvars, gvars>>

-----------------------------------------------------------------------------
(* calls of the pure functions normalize_title and extract_cves *)

\* the deduplicate, classify_gap_cause and find_gaps machines are not running
MachinesIdle ==
    /\ articles = <<>> /\ used = <<>> /\ groups = <<>> /\ group = <<>>
    /\ i = 1 /\ j = 1
    /\ gap = [title |-> "", url |-> ""]
    /\ feeds_config = <<>> /\ articles_fetched = <<>> /\ groups_deduped = <<>>
    /\ config = <<>> /\ now = 0 /\ idx = 1 /\ result = <<>>
    /\ gpc = "idle"
    /\ reference_articles = <<>> /\ digest_articles = <<>>
    /\ digest_urls = {} /\ digest_titles_norm = <<>>
    /\ gaps = <<>> /\ ref = 1 /\ dt = 1 /\ gap_index = 1

RECURSIVE Concat(_)
Concat(parts) == IF parts = <<>> THEN "" ELSE Head(parts) \o Concat(Tail(parts))

ListsUpTo(pool, n) == UNION {[1..k -> pool] : k \in 0..n}

MaxTags == 2
MaxSuffixes == 2

TagPool == {"[PR] ", "[b]"}
SuffixPool == {SOURCE_SUFFIXES[1], SOURCE_SUFFIXES[8], SOURCE_SUFFIXES[10]}
CorePool == {"Big Vuln", "x ", ""}

\* titles: optional leading blank, leading bracketed tags, a core, stacked suffixes
TitlePool ==
    { pad \o Concat(tags) \o core \o Concat(sfx) :
        pad \in {"", " "}, tags \in ListsUpTo(TagPool, MaxTags),
        core \in CorePool, sfx \in ListsUpTo(SuffixPool, MaxSuffixes) }

NormalizeInit ==
    /\ pc = "normalize"
    /\ call_arg \in TitlePool
    /\ call_ret = ""
    /\ OthersIdle
    /\ MachinesIdle

\* mutant of NormalizeTitle: the result is not stripped again after lowercasing
NormalizeTitleUnstripped ==
    /\ pc = "normalize"
    /\ call_ret' = Lower(StripBracketTag(StripSuffixes(Strip(call_arg), 1)))
    /\ pc' = "normalized"
    /\ UNCHANGED <<ovars, dvars, cvars, gvars, call_arg>>

\* normalize_title(title)
NormalizeTitle ==
    /\ pc = "normalize"
    /\ call_ret' = normalize_title(call_arg)
    /\ pc' = "normalized"
    /\ UNCHANGED <<ovars, dvars, cvars, gvars, call_arg>>

MaxParts == 2

\* pieces of text: identifiers in several letter cases, digit runs that are too
\* short or too long, a five-digit year, an identifier inside a word, plain words
TextParts ==
    { "CVE-2024-1234", "cve-2024-1234", "Cve-2024-12345678", "CVE-2024-123",
      "CVE-20245-1234", "xCVE-2023-0001234y", "No CVEs here" }

RECURSIVE Join(_)
Join(parts) ==
    IF parts = <<>> THEN ""
    ELSE IF Len(parts) = 1 THEN parts[1]
    ELSE Head(parts) \o " " \o Join(Tail(parts))

TextPool == {Join(parts) : parts \in ListsUpTo(TextParts, MaxParts)}

ExtractInit ==
    /\ pc = "extract"
    /\ call_arg \in TextPool
    /\ call_ret = {}
    /\ OthersIdle
    /\ MachinesIdle

\* extract_cves(text)
ExtractCves ==
    /\ pc = "extract"
    /\ call_ret' = extract_cves(call_arg)
    /\ pc' = "extracted"
    /\ UNCHANGED <<ovars, dvars, cvars, gvars, call_arg>>

-----------------------------------------------------------------------------
(* main.rank_groups *)

MaxRanked == 3

\* groups of articles (title, source_name); an article without a source_name
\* reads as source_name "", which is no trusted name
RankGroupPool ==
    { << [title |-> "a", source_name |-> "Blog"] >>,
      << [title |-> "b", source_name |-> "CISA"] >>,
      << [title |-> "c", source_name |-> "Blog"],
         [title |-> "d", source_name |-> ""],
         [title |-> "e", source_name |-> "CISA"] >>,
      << [title |-> "f", source_name |-> "CISA"],
         [title |-> "g", source_name |-> "Krebs"] >> }

TrustedPool == SUBSET {"CISA", "Krebs"}

RankInit ==
    /\ pc = "rank"
    /\ \E gs \in ListsUpTo(RankGroupPool, MaxRanked), ts \in TrustedPool :
           call_arg = [groups |-> gs, trusted_sources |-> ts]
    /\ call_ret = <<>>
    /\ OthersIdle
    /\ MachinesIdle

\* mutant of score: a group with trusted members gets the bonus once
score_bonus_once(grp, trusted_sources) ==
    Len(grp) + (IF \E m \in 1..Len(grp) : grp[m].source_name \in trusted_sources
                THEN 2 ELSE 0)

\* s = len(group); for art in group: if art.get("source_name") in trusted_sources: s += 2
score(grp, trusted_sources) ==
    Len(grp) + 2 * Cardinality({m \in 1..Len(grp) : grp[m].source_name \in trusted_sources})

\* grp put into a list sorted by descending score, behind the groups that score
\* the same (list.sort is stable, also with reverse=True)
RECURSIVE InsertByScore(_, _, _)
InsertByScore(sorted, grp, trusted_sources) ==
    IF sorted = <<>> THEN <<grp>>
    ELSE IF score(Head(sorted), trusted_sources) >= score(grp, trusted_sources)
         THEN <<Head(sorted)>> \o InsertByScore(Tail(sorted), grp, trusted_sources)
         ELSE <<grp>> \o sorted

\* the list after list.sort(key=score, reverse=True)
RECURSIVE SortedByScore(_, _)
SortedByScore(gs, trusted_sources) ==
    IF gs = <<>> THEN <<>>
    ELSE InsertByScore(SortedByScore(SubSeq(gs, 1, Len(gs) - 1), trusted_sources),
                       gs[Len(gs)], trusted_sources)

\* groups.sort(key=score, reverse=True); return groups
\* (the caller's list is sorted in place and is the list returned)
RankGroups ==
    /\ pc = "rank"
    /\ LET ranked == SortedByScore(call_arg.groups, call_arg.trusted_sources)
       IN /\ call_arg' = [call_arg EXCEPT !.groups = ranked]
          /\ call_ret' = ranked
    /\ pc' = "ranked"
    /\ UNCHANGED <<ovars, dvars, cvars, gvars>>

-----------------------------------------------------------------------------
(* deduplicate and find_gaps on the same articles: the first article as the   *)
(* reference list, the others as the digest list                              *)

PathsPool ==
    { [title |-> "[PR]", url |-> "https://a.com/1", summary |-> ""],
      [title |-> "", url |-> "https://b.com/2", summary |-> ""],
      [title |-> "Big Vuln - CISA", url |-> "https://c.com/3", summary |-> ""],
      [title |-> "big vulns", url |-> "https://d.com/4", summary |-> ""],
      [title |-> "New flaw", url |-> "https://a.com/1", summary |-> "cve-2024-1234"],
      [title |-> "CVE-2024-1234 fix", url |-> "", summary |-> ""] }

PathsInit ==
    /\ pc = "outer"
    /\ articles \in ListsUpTo(PathsPool, MaxArticles)
    /\ used = [k \in 1..Len(articles) |-> FALSE]
    /\ groups = <<>>
    /\ group = <<>>
    /\ i = 1
    /\ j = 1
    /\ gpc = "start"
    /\ reference_articles = [k \in 1..Min(1, Len(articles)) |-> articles[k]]
    /\ digest_articles = [k \in 1..(Len(articles) - 1) |-> articles[k + 1]]
    /\ digest_urls = {}
    /\ digest_titles_norm = <<>>
    /\ gaps = <<>>
    /\ ref = 1
    /\ dt = 1
    /\ gap_index = 1
    /\ gap = [title |-> "", url |-> ""]
    /\ feeds_config = <<>> /\ articles_fetched = <<>> /\ groups_deduped = <<>>
    /\ config = <<>> /\ now = 0 /\ idx = 1 /\ result = <<>>
    /\ call_arg = <<>>
    /\ call_ret = <<>>
    /\ OthersIdle

-----------------------------------------------------------------------------
(* fetcher.fetch_feeds, and main.run_analyze_gap from the fetch to the        *)
(* classification of every gap                                                *)

MaxEntries == 2
MaxNow == 11

\* a date field of a feed entry: its text, and the time dateutil reads from it
\* (<<>> when the parser raises ValueError); an absent field has the text ""
NoDate == [raw |-> "", value |-> <<>>]
BadDate == [raw |-> "not-a-date", value |-> <<>>]
DateAt(t) == [raw |-> "day", value |-> <<t>>]

\* for field in ("published", "updated", "created"): the first one that parses
_parse_date(entry) ==
    IF entry.published.raw # "" /\ entry.published.value # <<>> THEN entry.published.value
    ELSE IF entry.updated.raw # "" /\ entry.updated.value # <<>> THEN entry.updated.value
    ELSE IF entry.created.raw # "" /\ entry.created.value # <<>> THEN entry.created.value
    ELSE <<>>

\* the position of the last occurrence of sep in s, 0 when there is none
LastIndexOf(s, sep) ==
    LET hits == {p \in 1..(Len(s) - Len(sep) + 1) : SubSeq(s, p, p + Len(sep) - 1) = sep}
    IN IF hits = {} THEN 0 ELSE CHOOSE p \in hits : \A q \in hits : q <= p

\* title.rsplit(sep, 1)[-1].strip()
AfterLast(s, sep) ==
    Strip(SubSeq(s, LastIndexOf(s, sep) + Len(sep), Len(s)))

\* the source's title if the entry has one, else what follows the last " - "
\* or the last " | " of the title
_extract_source(entry) ==
    IF entry.source_title # "" THEN entry.source_title
    ELSE IF Contains(entry.title, " - ") THEN AfterLast(entry.title, " - ")
    ELSE IF Contains(entry.title, " | ") THEN AfterLast(entry.title, " | ")
    ELSE ""

\* lang = feed_cfg.get("lang", "en")
FeedLang(feed_cfg) ==
    IF "lang" \in DOMAIN feed_cfg THEN feed_cfg.lang ELSE "en"

\* article = {"title": ..., "url": ..., ..., "source_name": _extract_source(entry)}
Article(entry, feed_cfg) ==
    [title |-> Strip(entry.title),
     url |-> Strip(entry.link),
     summary |-> Strip(entry.summary),
     published |-> _parse_date(entry),
     source_feed |-> feed_cfg.name,
     lang |-> FeedLang(feed_cfg),
     source_name |-> _extract_source(entry)]

\* mutant of FetchWindowDays: fetch_feeds is called without the configured window
FetchWindowDefault(cfg) == DefaultWindowDays

\* config.get("window_days", 3), as run_analyze_gap hands it to fetch_feeds
FetchWindowDays(cfg) ==
    IF cfg.window_days = <<>> THEN DefaultWindowDays ELSE cfg.window_days[1]

EntryPool ==
    { [title |-> " CVE-2024-1234 exploited - SecurityWeek", link |-> "https://example.com/x ",
       summary |-> "", source_title |-> "",
       published |-> DateAt(7), updated |-> DateAt(10), created |-> NoDate],
      [title |-> "Linux kernel update", link |-> "https://example.com/k",
       summary |-> " fixes cve-2024-1234 ", source_title |-> "Kernel News",
       published |-> BadDate, updated |-> NoDate, created |-> NoDate],
      [title |-> "Windows Patch | CISA", link |-> "https://example.com/p",
       summary |-> "", source_title |-> "",
       published |-> BadDate, updated |-> DateAt(9), created |-> DateAt(2)],
      [title |-> "Old advisory", link |-> "https://example.com/o/",
       summary |-> "", source_title |-> "",
       published |-> NoDate, updated |-> NoDate, created |-> DateAt(2)] }

\* feedparser.parse(url) raises, or yields the entries of the feed
ParseOutcomes ==
    {[ok |-> FALSE, entries |-> <<>>]}
        \cup {[ok |-> TRUE, entries |-> es] : es \in ListsUpTo(EntryPool, MaxEntries)}

DownOutcomes ==
    { [ok |-> FALSE, entries |-> <<>>],
      [ok |-> TRUE, entries |->
          << [title |-> "Linux kernel update - CISA", link |-> "https://example.com/o",
              summary |-> "", source_title |-> "",
              published |-> NoDate, updated |-> BadDate, created |-> NoDate] >>] }

PipelineFeeds ==
    { <<>>,
      << [name |-> "Example", url |-> "https://example.com/rss"] >>,
      << [name |-> "Down", url |-> "https://down.example.com/feed", lang |-> "ja"],
         [name |-> "Example", url |-> "https://example.com/rss"] >> }

PipelineConfigs ==
    { Setting(<<>>, "absent", <<>>),
      Setting(<<0>>, "list", <<"windows">>),
      Setting(<<1>>, "list", <<>>) }

\* the reference list and the digest list of a run
PipelineLists ==
    { [reference |-> << [title |-> "CVE-2024-1234 exploited", url |-> "https://example.com/x/"],
                        [title |-> "Windows Patch", url |-> "https://example.com/p"] >>,
       digest |-> <<>>],
      [reference |-> << [title |-> "Old advisory", url |-> "https://example.com/o"],
                        [title |-> "Kernel", url |-> "https://example.com/k"] >>,
       digest |-> <<>>],
      [reference |-> << [title |-> "Old advisory", url |-> "https://example.com/o"],
                        [title |-> "Kernel", url |-> "https://example.com/k"] >>,
       digest |-> << [title |-> "Kernel", url |-> "https://example.com/k"],
                     [title |-> "old advisories", url |-> ""] >>] }

PipelineInit ==
    /\ pc = "fetch"
    /\ feeds_config \in PipelineFeeds
    /\ parsed_feeds \in [DOMAIN feeds_config -> ParseOutcomes \cup DownOutcomes]
    /\ \A k \in DOMAIN feeds_config :
           parsed_feeds[k] \in
               (IF feeds_config[k].name = "Down" THEN DownOutcomes ELSE ParseOutcomes)
    /\ config \in PipelineConfigs
    /\ now = 10
    /\ cutoff = now - FetchWindowDays(config)
    /\ feed_index = 1
    /\ entry_index = 1
    /\ fetch_articles = <<>>
    /\ trusted_names = {"CISA", "Kernel News"}
    /\ ExtraIdle
    /\ \E lists \in PipelineLists :
           /\ reference_articles = lists.reference
           /\ digest_articles = lists.digest
    /\ gpc = "idle"
    /\ digest_urls = {}
    /\ digest_titles_norm = <<>>
    /\ gaps = <<>>
    /\ ref = 1
    /\ dt = 1
    /\ gap_index = 1
    /\ gap = [title |-> "", url |-> ""]
    /\ articles_fetched = <<>>
    /\ groups_deduped = <<>>
    /\ idx = 1
    /\ result = <<>>
    /\ articles = <<>>
    /\ used = <<>>
    /\ groups = <<>>
    /\ group = <<>>
    /\ i = 1
    /\ j = 1
    /\ call_arg = <<>>
    /\ call_ret = <<>>

FetchFrame ==
    UNCHANGED <<pc, dvars, cvars, gvars, fvars, xvars, parsed_feeds, cutoff, trusted_names>>

\* except Exception: print the warning; continue
FeedFailed ==
    /\ pc = "fetch" /\ feed_index <= Len(feeds_config)
    /\ ~parsed_feeds[feed_index].ok
    /\ feed_index' = feed_index + 1
    /\ entry_index' = 1
    /\ UNCHANGED fetch_articles
    /\ FetchFrame

\* the entry the inner loop is at
Entry == parsed_feeds[feed_index].entries[entry_index]

AtEntry ==
    /\ pc = "fetch" /\ feed_index <= Len(feeds_config)
    /\ parsed_feeds[feed_index].ok
    /\ entry_index <= Len(parsed_feeds[feed_index].entries)

\* mutant of TooOld: an entry without a date counts as too old
TooOldOrUndated(published) ==
    IF published = <<>> THEN TRUE ELSE published[1] < cutoff

\* if published and published < cutoff
TooOld(published) ==
    published # <<>> /\ published[1] < cutoff

\* continue
EntryDropped ==
    /\ AtEntry
    /\ TooOld(_parse_date(Entry))
    /\ entry_index' = entry_index + 1
    /\ UNCHANGED <<feed_index, fetch_articles>>
    /\ FetchFrame

\* articles.append(article)
EntryKept ==
    /\ AtEntry
    /\ ~TooOld(_parse_date(Entry))
    /\ fetch_articles' = Append(fetch_articles, Article(Entry, feeds_config[feed_index]))
    /\ entry_index' = entry_index + 1
    /\ UNCHANGED feed_index
    /\ FetchFrame

\* the entries of the feed are exhausted
FeedDone ==
    /\ pc = "fetch" /\ feed_index <= Len(feeds_config)
    /\ parsed_feeds[feed_index].ok
    /\ entry_index > Len(parsed_feeds[feed_index].entries)
    /\ feed_index' = feed_index + 1
    /\ entry_index' = 1
    /\ UNCHANGED fetch_articles
    /\ FetchFrame

\* return articles; run_analyze_gap hands the list to deduplicate
FetchReturn ==
    /\ pc = "fetch" /\ feed_index > Len(feeds_config)
    /\ articles' = fetch_articles
    /\ used' = [k \in 1..Len(fetch_articles) |-> FALSE]
    /\ groups' = <<>>
    /\ group' = <<>>
    /\ i' = 1
    /\ j' = 1
    /\ pc' = "outer"
    /\ UNCHANGED <<cvars, gvars, fvars, ovars>>

\* the clock moves on while run_analyze_gap loads the digest and the reference
\* page: classify_gap_cause reads datetime.now(UTC) again
ClockAdvances ==
    /\ pc = "done" /\ gpc = "idle" /\ now < MaxNow
    /\ now' = now + 1
    /\ UNCHANGED <<pc, dvars, gvars, fvars, ovars, gap, feeds_config, articles_fetched,
                   groups_deduped, config, idx, result>>

\* the groups of deduplicate as lists of articles
ArticleGroups == [g \in 1..Len(groups) |-> [k \in 1..Len(groups[g]) |-> articles[groups[g][k]]]]

\* groups = rank_groups(groups, trusted); the digest and the reference list are
\* loaded and find_gaps is called; the classifier is given the fetched articles
\* and the ranked groups
RankAndLoad ==
    /\ pc = "done" /\ gpc = "idle"
    /\ groups_deduped' = SortedByScore(ArticleGroups, trusted_names)
    /\ articles_fetched' = fetch_articles
    /\ gpc' = "start"
    /\ pc' = "classify"
    /\ UNCHANGED <<dvars, fvars, ovars, gap, feeds_config, config, now, idx, result,
                   reference_articles, digest_articles, digest_urls, digest_titles_norm,
                   gaps, ref, dt, gap_index>>

-----------------------------------------------------------------------------
(* formatter.format_digest, written to the digest file by main._write_digest, *)
(* and analyzer.parse_digest_markdown reading that file                       *)

MaxItems == 2

\* str(n) for n >= 0
RECURSIVE IntToStr(_)
IntToStr(n) ==
    IF n < 10 THEN Char(Digits, n + 1)
    ELSE IntToStr(n \div 10) \o Char(Digits, (n % 10) + 1)

\* sep.join(parts)
RECURSIVE JoinWith(_, _)
JoinWith(parts, sep) ==
    IF parts = <<>> THEN ""
    ELSE IF Len(parts) = 1 THEN parts[1]
    ELSE Head(parts) \o sep \o JoinWith(Tail(parts), sep)

CATEGORY_ORDER == <<"critical", "notable", "jp", "general">>

\* the headers, without the pictograph that precedes each of them
CATEGORY_HEADERS ==
    [critical |-> "Critical / Actively Exploited",
     notable |-> "Notable",
     jp |-> "Japan / Japanese Sources",
     general |-> "General"]

\* cat = art.get("category", "general"); if cat not in by_cat: cat = "general"
Category(art) ==
    IF \E c \in 1..Len(CATEGORY_ORDER) : CATEGORY_ORDER[c] = art.category
    THEN art.category
    ELSE "general"

\* by_cat[cat]
ByCat(arts, cat) ==
    LET InCat(art) == Category(art) = cat
    IN SelectSeq(arts, InCat)

\* art put into a list sorted by descending source_count, behind the items with
\* the same count (list.sort is stable, also with reverse=True)
RECURSIVE InsertByCount(_, _)
InsertByCount(sorted, art) ==
    IF sorted = <<>> THEN <<art>>
    ELSE IF Head(sorted).source_count >= art.source_count
         THEN <<Head(sorted)>> \o InsertByCount(Tail(sorted), art)
         ELSE <<art>> \o sorted

\* items.sort(key=lambda x: x.get("source_count", 1), reverse=True)
RECURSIVE SortedByCount(_)
SortedByCount(items) ==
    IF items = <<>> THEN <<>>
    ELSE InsertByCount(SortedByCount([k \in 1..(Len(items) - 1) |-> items[k]]),
                       items[Len(items)])

UrlsShown == 3

\* art["urls"][:3]
FirstUrls(art) == [k \in 1..Min(UrlsShown, Len(art.urls)) |-> art.urls[k]]

\* mutant of UrlLines: every URL of the article is written
UrlLinesAll(art) ==
    [k \in 1..Len(art.urls) |-> "- <" \o art.urls[k] \o ">"]

\* for url in art["urls"][:3]: lines.append(f"- <{url}>")
UrlLines(art) ==
    [k \in 1..Len(FirstUrls(art)) |-> "- <" \o FirstUrls(art)[k] \o ">"]

\* the lines of one article
ArticleLines(art) ==
    <<"### " \o art.title, "">>
        \o (IF art.cves # <<>> THEN <<"**CVE:** " \o JoinWith(art.cves, ", "), "">> ELSE <<>>)
        \o <<art.summary, "">>
        \o (IF art.sources # <<>>
            THEN <<"**Sources (" \o IntToStr(art.source_count) \o "):** "
                       \o JoinWith(art.sources, ", ")>>
            ELSE <<>>)
        \o UrlLines(art)
        \o <<"", "---", "">>

RECURSIVE ItemLines(_)
ItemLines(items) ==
    IF items = <<>> THEN <<>> ELSE ArticleLines(Head(items)) \o ItemLines(Tail(items))

\* the lines of the categories from position c of CATEGORY_ORDER on
RECURSIVE CategoryLines(_, _)
CategoryLines(arts, c) ==
    IF c > Len(CATEGORY_ORDER) THEN <<>>
    ELSE LET items == SortedByCount(ByCat(arts, CATEGORY_ORDER[c]))
         IN (IF items = <<>> THEN <<>>
             ELSE <<"## " \o CATEGORY_HEADERS[CATEGORY_ORDER[c]], "">> \o ItemLines(items))
            \o CategoryLines(arts, c + 1)

\* format_digest(articles, date_str); generated is the clock reading of the
\* "Generated:" line, and the dash of the first line is written "-"
format_digest(arts, date_str, generated) ==
    JoinWith(<<"# Security News Digest - " \o date_str,
               "",
               "Generated: " \o generated,
               "Articles: " \o IntToStr(Len(arts)),
               "",
               "---",
               "">> \o CategoryLines(arts, 1),
             "\n")

\* the first line boundary of text at or after position p, Len(text) + 1 if none
NextBreak(text, p) ==
    LET breaks == {q \in p..Len(text) : Char(text, q) \in {"\n", "\r"}}
    IN IF breaks = {} THEN Len(text) + 1
       ELSE CHOOSE q \in breaks : \A r \in breaks : q <= r

\* text.splitlines() from position p on ("\r\n" is one boundary)
RECURSIVE SplitLines(_, _)
SplitLines(text, p) ==
    IF p > Len(text) THEN <<>>
    ELSE LET q == NextBreak(text, p)
             after == IF q < Len(text) /\ Char(text, q) = "\r" /\ Char(text, q + 1) = "\n"
                      THEN q + 2 ELSE q + 1
         IN <<SubSeq(text, p, q - 1)>> \o SplitLines(text, after)

\* the first position of c in s at or after p, 0 if none
Find(s, c, p) ==
    LET hits == {q \in p..Len(s) : Char(s, q) = c}
    IN IF hits = {} THEN 0 ELSE CHOOSE q \in hits : \A r \in hits : q <= r

\* whether needle stands in s at position p
At(s, p, needle) ==
    p + Len(needle) - 1 <= Len(s) /\ SubSeq(s, p, p + Len(needle) - 1) = needle

\* <(?P<url>https?://[^>]+)> matched at position p of s: <<url, position behind
\* the match>>, or <<>>
LinkAt(s, p) ==
    IF ~At(s, p, "<") THEN <<>>
    ELSE LET body == IF At(s, p + 1, "http://") THEN p + 8
                     ELSE IF At(s, p + 1, "https://") THEN p + 9
                     ELSE 0
         IN IF body = 0 THEN <<>>
            ELSE LET close == Find(s, ">", body)
                 IN IF close <= body THEN <<>>
                    ELSE <<SubSeq(s, p + 1, close - 1), close + 1>>

\* the first position at or after p of a character that is no whitespace
RECURSIVE SkipSpace(_, _)
SkipSpace(s, p) ==
    IF p <= Len(s) /\ Char(s, p) \in Whitespace THEN SkipSpace(s, p + 1) ELSE p

\* url_re.match(s) for ^-\s*<(?P<url>https?://[^>]+)>: <<url>> or <<>>
UrlOfLine(s) ==
    IF ~At(s, 1, "-") THEN <<>>
    ELSE LET m == LinkAt(s, SkipSpace(s, 2))
         IN IF m = <<>> THEN <<>> ELSE <<m[1]>>

\* m = url_re.match(line.strip()); if m and cur_title: out.append(...)
Record(line, cur_title) ==
    LET m == UrlOfLine(Strip(line))
    IN IF m # <<>> /\ cur_title # <<>> /\ cur_title[1] # ""
       THEN << [title |-> cur_title[1], url |-> m[1]] >>
       ELSE <<>>

\* for line in text.splitlines(), from line k on; cur_title is <<>> for None
RECURSIVE ParseLines(_, _, _)
ParseLines(lines, k, cur_title) ==
    IF k > Len(lines) THEN <<>>
    ELSE IF StartsWith(lines[k], "### ")
         THEN ParseLines(lines, k + 1, <<Strip(SubSeq(lines[k], 5, Len(lines[k])))>>)
         ELSE Record(lines[k], cur_title) \o ParseLines(lines, k + 1, cur_title)

\* for m in link_re.finditer(text), from position p on
RECURSIVE PlainLinks(_, _)
PlainLinks(text, p) ==
    LET hits == {q \in p..Len(text) : LinkAt(text, q) # <<>>}
    IN IF hits = {} THEN <<>>
       ELSE LET m == LinkAt(text, CHOOSE q \in hits : \A r \in hits : q <= r)
            IN << [title |-> m[1], url |-> m[1]] >> \o PlainLinks(text, m[2])

\* parse_digest_markdown(path), text being the content of the file
parse_digest_markdown(text) ==
    LET out == ParseLines(SplitLines(text, 1), 1, <<>>)
    IN IF out = <<>> THEN PlainLinks(text, 1) ELSE out

\* summarized articles
ItemPool ==
    { [title |-> "Critical Vuln", summary |-> "A critical vulnerability.",
       category |-> "critical", sources |-> <<"Source1">>,
       urls |-> <<"https://example.com/1">>, cves |-> <<"CVE-2025-0001">>,
       source_count |-> 2],
      [title |-> "General News", summary |-> "",
       category |-> "general", sources |-> <<"S1", "S2">>,
       urls |-> <<"https://e.com/a", "http://e.com/b", "https://e.com/c", "https://e.com/d">>,
       cves |-> <<>>, source_count |-> 12],
      [title |-> "JP News", summary |-> "News.",
       category |-> "jp", sources |-> <<>>, urls |-> <<>>, cves |-> <<>>,
       source_count |-> 1],
      [title |-> "", summary |-> "Untitled.",
       category |-> "other", sources |-> <<>>, urls |-> <<"https://e.com/t">>,
       cves |-> <<>>, source_count |-> 3],
      [title |-> " Padded ", summary |-> "x",
       category |-> "critical", sources |-> <<>>,
       urls |-> <<"ftp://e.com/f", "https://e.com/p">>,
       cves |-> <<"CVE-2025-0001", "CVE-2025-0002">>, source_count |-> 3],
      [title |-> "Notable", summary |-> "y",
       category |-> "notable", sources |-> <<>>, urls |-> <<"HTTPS://e.com/N", "https://">>,
       cves |-> <<>>, source_count |-> 1] }

RoundTripInit ==
    /\ pc = "format"
    /\ call_arg \in ListsUpTo(ItemPool, MaxItems)
    /\ call_ret = <<>>
    /\ ExtraIdle
    /\ FetchIdle
    /\ MachinesIdle

\* digest = format_digest(results, date_str); f.write(digest)
WriteDigest ==
    /\ pc = "format"
    /\ digest_file' = format_digest(call_arg, "2025-02-10", "2025-02-10 12:00 UTC")
    /\ pc' = "written"
    /\ UNCHANGED <<nvars, svars, lvars, dvars, cvars, gvars, fvars>>

\* digest_articles = parse_digest_markdown(digest_file)
ParseDigest ==
    /\ pc = "written"
    /\ call_ret' = parse_digest_markdown(digest_file)
    /\ pc' = "parsed"
    /\ UNCHANGED <<ovars, dvars, cvars, gvars, call_arg>>

-----------------------------------------------------------------------------
(* analyzer.interactive_session *)

MaxFeeds == 3
WidenedWindowDays == 7

\* raw.split(): the pieces of s between runs of whitespace, from position p on
RECURSIVE SplitWords(_, _)
SplitWords(s, p) ==
    LET a == SkipSpace(s, p)
    IN IF a > Len(s) THEN <<>>
       ELSE LET blanks == {q \in a..Len(s) : Char(s, q) \in Whitespace}
                b == IF blanks = {} THEN Len(s) + 1
                     ELSE CHOOSE q \in blanks : \A r \in blanks : q <= r
            IN <<SubSeq(s, a, b - 1)>> \o SplitWords(s, b)

\* parse_command(line)
parse_command(text) ==
    LET parts == SplitWords(text, 1)
    IN IF parts = <<>> THEN [name |-> "", args |-> <<>>]
       ELSE [name |-> Lower(parts[1]), args |-> Tail(parts)]

\* the number written by the digits of s
RECURSIVE DigitsValue(_)
DigitsValue(s) ==
    IF s = "" THEN 0
    ELSE 10 * DigitsValue(SubSeq(s, 1, Len(s) - 1))
         + (CHOOSE d \in 0..9 : Char(Digits, d + 1) = Char(s, Len(s)))

AllDigits(s) == s # "" /\ \A k \in 1..Len(s) : IsDigit(Char(s, k))

\* int(s) for a word s: <<n>>, or <<>> for ValueError (a sign and decimal
\* digits; the words of the model hold no underscore)
IntOf(s) ==
    IF AllDigits(s) THEN <<DigitsValue(s)>>
    ELSE IF Len(s) > 1 /\ Char(s, 1) = "+" /\ AllDigits(Tail(s)) THEN <<DigitsValue(Tail(s))>>
    ELSE IF Len(s) > 1 /\ Char(s, 1) = "-" /\ AllDigits(Tail(s)) THEN <<0 - DigitsValue(Tail(s))>>
    ELSE <<>>

\* ci = g.get("cause_info") or {}; cause = ci.get("cause", "unknown")
CauseOf(g) ==
    IF "cause_info" \in DOMAIN g THEN g.cause_info.cause ELSE "unknown"

\* the content of the configuration file: the text that was loaded, or
\* _yaml_dump of a configuration
LoadedFile == [yaml |-> "loaded"]
_yaml_dump(cfg) == [yaml |-> "dumped", of |-> cfg]

\* the lines typed at the prompts
CommandLines ==
    { "list", "detail 1", "detail", "suggest", " Show-Fix 2 ", "show-fix x", "help", "frobnicate",
      "", "apply", "apply x", "apply 0", "apply 9", "apply -1", "apply 1", "APPLY 2 3",
      "apply +3", "apply 4", "apply 5 ", "q" }

KeywordLines == {"", " ", " vpn ", "windows"}

ConfirmLines == {"", "n", " Y ", "yes", "yes please"}

SessionGapRecord(title, url, cause) ==
    [title |-> title, url |-> url, matched |-> FALSE,
     cause_info |-> [cause |-> cause, detail |-> <<>>, suggestion |-> <<>>]]

SessionGaps ==
    { <<>>,
      << SessionGapRecord("Old advisory", "https://example.com/o", "outside_window"),
         SessionGapRecord("Windows Patch", "https://example.com/p", "interest_filtered"),
         SessionGapRecord("Missed", "https://Missed.example.net/post", "feed_missing"),
         SessionGapRecord("Kernel", "https://example.com/k", "low_rank"),
         [title |-> "Bare", url |-> "", matched |-> FALSE] >>,
      << SessionGapRecord("No URL", "", "feed_missing"),
         SessionGapRecord("Merged", "https://example.com/m", "dedup_merged"),
         SessionGapRecord("Other", "https://example.com/u", "unknown") >> }

SessionConfigs ==
    { Setting(<<>>, "absent", <<>>),
      Setting(<<0>>, "other", <<"linux">>),
      Setting(<<10>>, "list", <<"", "windows">>) }

SessionInit ==
    /\ pc = "prompt"
    /\ gaps \in SessionGaps
    /\ config \in SessionConfigs
    /\ feeds_config \in FeedsPool
    /\ config_file = LoadedFile
    /\ new_config = <<>>
    /\ cmd = [name |-> "", args |-> <<>>]
    /\ input_line = ""
    /\ output = "help"
    /\ digest_file = ""
    /\ llm_calls = <<>> /\ llm_result = <<>> /\ results = <<>>
    /\ FetchIdle
    /\ gpc = "done"
    /\ reference_articles = <<>> /\ digest_articles = <<>>
    /\ digest_urls = {} /\ digest_titles_norm = <<>>
    /\ ref = 1 /\ dt = 1 /\ gap_index = Len(gaps) + 1
    /\ gap = [title |-> "", url |-> ""]
    /\ articles_fetched = <<>> /\ groups_deduped = <<>>
    /\ now = 10 /\ idx = 1 /\ result = <<>>
    /\ articles = <<>> /\ used = <<>> /\ groups = <<>> /\ group = <<>>
    /\ i = 1 /\ j = 1
    /\ call_arg = <<>>
    /\ call_ret = <<>>

\* what a step of the session leaves alone besides the configuration, the
\* file and the pending change
SessionFrame ==
    UNCHANGED <<dvars, gvars, fvars, nvars, digest_file, lvars, gap, articles_fetched,
                groups_deduped, now, idx, result>>

\* line = input("analyze-gap> "); cmd = parse_command(line); the command is
\* answered with a message and the loop goes on
Answer(text, message) ==
    /\ input_line' = text
    /\ cmd' = parse_command(text)
    /\ output' = message
    /\ pc' = "prompt"
    /\ UNCHANGED <<config, feeds_config, config_file, new_config>>
    /\ SessionFrame

\* n = int(cmd.args[0]), <<>> for ValueError
NumberOf(c) == IntOf(c.args[1])

InRange(c) ==
    /\ c.args # <<>> /\ NumberOf(c) # <<>>
    /\ NumberOf(c)[1] >= 1 /\ NumberOf(c)[1] <= Len(gaps)

\* except (EOFError, KeyboardInterrupt): print("\nBye."); return
EndOfInput ==
    /\ pc = "prompt"
    /\ output' = "Bye."
    /\ pc' = "bye"
    /\ UNCHANGED <<config, feeds_config, config_file, new_config, cmd, input_line>>
    /\ SessionFrame

\* if cmd.name in ("quit", "q", "exit"): print("Bye."); return
Quit ==
    /\ pc = "prompt"
    /\ \E text \in CommandLines :
           /\ parse_command(text).name \in {"quit", "q", "exit"}
           /\ input_line' = text
           /\ cmd' = parse_command(text)
    /\ output' = "Bye."
    /\ pc' = "bye"
    /\ UNCHANGED <<config, feeds_config, config_file, new_config>>
    /\ SessionFrame

\* if cmd.name in ("help", "h", "?"): print_help()
Help ==
    /\ pc = "prompt"
    /\ \E text \in CommandLines :
           /\ parse_command(text).name \in {"help", "h", "?"}
           /\ Answer(text, "help")

\* if cmd.name == "list"
List ==
    /\ pc = "prompt"
    /\ \E text \in CommandLines :
           /\ parse_command(text).name = "list"
           /\ Answer(text, IF gaps = <<>> THEN "No gaps." ELSE "list")

\* the message for a command that takes a gap number and names none, no
\* integer, or a number out of range; "" when the number names a gap
NumberMessage(c) ==
    IF c.args = <<>> THEN "Usage"
    ELSE IF NumberOf(c) = <<>> THEN "n must be an integer"
    ELSE IF NumberOf(c)[1] < 1 \/ NumberOf(c)[1] > Len(gaps) THEN "out of range"
    ELSE ""

\* if cmd.name == "detail"
Detail ==
    /\ pc = "prompt"
    /\ \E text \in CommandLines :
           LET c == parse_command(text)
           IN /\ c.name = "detail"
              /\ Answer(text, IF InRange(c) THEN "detail" ELSE NumberMessage(c))

\* if cmd.name == "suggest": print(suggestions)
Suggest ==
    /\ pc = "prompt"
    /\ \E text \in CommandLines :
           /\ parse_command(text).name = "suggest"
           /\ Answer(text, "suggestions")

\* if cmd.name == "show-fix"
ShowFix ==
    /\ pc = "prompt"
    /\ \E text \in CommandLines :
           LET c == parse_command(text)
           IN /\ c.name = "show-fix"
              /\ Answer(text, IF InRange(c) THEN "suggestion" ELSE NumberMessage(c))

\* apply without a number that names a gap
ApplyRejected ==
    /\ pc = "prompt"
    /\ \E text \in CommandLines :
           LET c == parse_command(text)
           IN /\ c.name = "apply" /\ ~InRange(c)
              /\ Answer(text, NumberMessage(c))

\* else: print("This fix cannot be applied automatically."); continue
ApplyOtherCause ==
    /\ pc = "prompt"
    /\ \E text \in CommandLines :
           LET c == parse_command(text)
           IN /\ c.name = "apply" /\ InRange(c)
              /\ CauseOf(gaps[NumberOf(c)[1]])
                     \notin {"outside_window", "interest_filtered", "feed_missing"}
              /\ Answer(text, "cannot be applied")

\* the command is read and a change is prepared in new_config, a copy of config
Prepare(text, change, next) ==
    /\ input_line' = text
    /\ cmd' = parse_command(text)
    /\ new_config' = change
    /\ output' = next
    /\ pc' = next
    /\ UNCHANGED <<config, feeds_config, config_file>>
    /\ SessionFrame

\* cur = int(new_config.get("window_days", 3) or 3); max(cur, 7)
Widened(cfg) ==
    IF WindowDays(cfg) >= WidenedWindowDays THEN WindowDays(cfg) ELSE WidenedWindowDays

\* mutant of ApplyWindow: the change is made in config itself
ApplyWindowInPlace ==
    /\ pc = "prompt"
    /\ \E text \in CommandLines :
           LET c == parse_command(text)
           IN /\ c.name = "apply" /\ InRange(c)
              /\ CauseOf(gaps[NumberOf(c)[1]]) = "outside_window"
              /\ input_line' = text
              /\ cmd' = c
              /\ config' = [config EXCEPT !.window_days = <<Widened(config)>>]
              /\ new_config' = [config |-> config', feeds |-> feeds_config]
              /\ output' = "confirm"
              /\ pc' = "confirm"
              /\ UNCHANGED <<feeds_config, config_file>>
              /\ SessionFrame

\* if cause == "outside_window": new_config["window_days"] = max(cur, 7)
ApplyWindow ==
    /\ pc = "prompt"
    /\ \E text \in CommandLines :
           LET c == parse_command(text)
           IN /\ c.name = "apply" /\ InRange(c)
              /\ CauseOf(gaps[NumberOf(c)[1]]) = "outside_window"
              /\ Prepare(text,
                         [config |-> [config EXCEPT !.window_days = <<Widened(config)>>],
                          feeds |-> feeds_config],
                         "confirm")

\* elif cause == "interest_filtered": kws = list(_parse_interest_keywords(new_config));
\* the keyword is asked for
ApplyInterest ==
    /\ pc = "prompt"
    /\ \E text \in CommandLines :
           LET c == parse_command(text)
           IN /\ c.name = "apply" /\ InRange(c)
              /\ CauseOf(gaps[NumberOf(c)[1]]) = "interest_filtered"
              /\ Prepare(text, [config |-> config, feeds |-> feeds_config], "keyword")

\* kw = input("keyword> ").strip(); if not kw: print("Canceled (empty keyword)."); continue
KeywordEmpty ==
    /\ pc = "keyword"
    /\ \E text \in KeywordLines :
           /\ Strip(text) = ""
           /\ input_line' = text
    /\ output' = "Canceled (empty keyword)."
    /\ pc' = "prompt"
    /\ UNCHANGED <<config, feeds_config, config_file, new_config, cmd>>
    /\ SessionFrame

\* if kw not in kws: kws.append(kw); new_config["interest_keywords"] = kws
WithKeyword(cfg, kw) ==
    LET kws == _parse_interest_keywords(cfg)
    IN [cfg EXCEPT !.interest_keywords =
            [kind |-> "list",
             items |-> IF \E k \in 1..Len(kws) : kws[k] = kw THEN kws ELSE Append(kws, kw)]]

KeywordGiven ==
    /\ pc = "keyword"
    /\ \E text \in KeywordLines :
           /\ Strip(text) # ""
           /\ input_line' = text
           /\ new_config' = [new_config EXCEPT !.config = WithKeyword(new_config.config, Strip(text))]
    /\ output' = "confirm"
    /\ pc' = "confirm"
    /\ UNCHANGED <<config, feeds_config, config_file, cmd>>
    /\ SessionFrame

\* {"name": dom or "new-source", "url": f"https://{dom}/feed" if dom else "", "lang": "en"}
Placeholder(dom) ==
    [name |-> IF dom # "" THEN dom ELSE "new-source",
     url |-> IF dom # "" THEN "https://" \o dom \o "/feed" ELSE "",
     lang |-> "en"]

\* elif cause == "feed_missing": feeds = list(...); feeds.append({...})
ApplyFeed ==
    /\ pc = "prompt"
    /\ Len(feeds_config) < MaxFeeds
    /\ \E text \in CommandLines :
           LET c == parse_command(text)
           IN /\ c.name = "apply" /\ InRange(c)
              /\ CauseOf(gaps[NumberOf(c)[1]]) = "feed_missing"
              /\ Prepare(text,
                         [config |-> config,
                          feeds |-> Append(feeds_config,
                                           Placeholder(_extract_domain(gaps[NumberOf(c)[1]].url)))],
                         "confirm")

\* confirm = input("Proceed? [y/N] ").strip().lower()
Confirmed(text) == Lower(Strip(text)) \in {"y", "yes"}

\* if confirm not in ("y", "yes"): print("Canceled."); continue
Declined ==
    /\ pc = "confirm"
    /\ \E text \in ConfirmLines :
           /\ ~Confirmed(text)
           /\ input_line' = text
    /\ output' = "Canceled."
    /\ pc' = "prompt"
    /\ UNCHANGED <<config, feeds_config, config_file, new_config, cmd>>
    /\ SessionFrame

\* diff = _apply_fix_to_config(config_path, new_config); config.update(new_config)
Apply ==
    /\ pc = "confirm"
    /\ \E text \in ConfirmLines :
           /\ Confirmed(text)
           /\ input_line' = text
    /\ config_file' = _yaml_dump(new_config)
    /\ config' = new_config.config
    /\ feeds_config' = new_config.feeds
    /\ output' = "Applied."
    /\ pc' = "prompt"
    /\ UNCHANGED <<new_config, cmd>>
    /\ SessionFrame

\* the empty line: no branch is taken and the prompt comes again
EmptyLine ==
    /\ pc = "prompt"
    /\ \E text \in CommandLines :
           /\ parse_command(text).name = ""
           /\ Answer(text, "")

\* if cmd.name: print("Unknown command. Type 'help'.")
UnknownCommand ==
    /\ pc = "prompt"
    /\ \E text \in CommandLines :
           /\ parse_command(text).name \notin
                  {"", "quit", "q", "exit", "help", "h", "?", "list", "detail", "suggest",
                   "show-fix", "apply"}
           /\ Answer(text, "Unknown command.")

-----------------------------------------------------------------------------
(* summarizer.summarize and _guess_category; analyzer._llm_call and          *)
(* analyzer.generate_suggestions.  What the API answers is the choice of    *)
(* the environment at each call.                                            *)

MaxSummaryGroups == 2

\* Python values that json.loads and the API client hand back, by type; a
\* dict is the list of its items
PyNone == [type |-> "NoneType"]
PyInt(v) == [type |-> "int", value |-> v]
PyStr(s) == [type |-> "str", value |-> s]
PyList(xs) == [type |-> "list", value |-> xs]
PyDict(items) == [type |-> "dict", value |-> items]

IsNone(v) == v.type = "NoneType"

\* an exception that leaves the function
Raises(name) == [raises |-> name]

\* bool(v)
Truthy(v) ==
    CASE v.type = "NoneType" -> FALSE
      [] v.type = "int" -> v.value # 0
      [] v.type = "str" -> v.value # ""
      [] v.type = "list" -> Len(v.value) > 0
      [] v.type = "dict" -> Len(v.value) > 0

\* key in d, d.get(key, default) for a dict d
DictHas(d, key) == \E k \in 1..Len(d.value) : d.value[k][1] = key

DictItem(d, key) == d.value[CHOOSE k \in 1..Len(d.value) : d.value[k][1] = key][2]

\* d.get(key, default) as a field of an entry, where a str is the string itself
DictGet(d, key, default) ==
    IF DictHas(d, key)
    THEN LET v == DictItem(d, key) IN IF v.type = "str" THEN v.value ELSE v
    ELSE default

\* key in v for a str, list or dict v
PyIn(key, v) ==
    CASE v.type = "dict" -> DictHas(v, key)
      [] v.type = "list" ->
             \E k \in 1..Len(v.value) :
                 IF v.value[k].type = "str" THEN v.value[k].value = key ELSE FALSE
      [] v.type = "str" -> Contains(v.value, key)

\* len(v) for a str, list or dict v
PyLen(v) == Len(v.value)

CRITICAL_TERMS ==
    << "actively exploited", "kev", "cvss 9", "cvss 10", "critical vulnerability",
       "zero-day", "0-day", "in the wild" >>

\* the first position from q on whose character is not in chars, Len(s) + 1
\* if there is none
FirstOutside(s, q, chars) ==
    LET stops == { p \in q..Len(s) : Char(s, p) \notin chars } \cup {Len(s) + 1}
    IN CHOOSE p \in stops : \A r \in stops : p <= r

\* re.search(r"cvss[:\s]*(\d+\.?\d*)", text): <<the integer part of group 1>>
\* of the leftmost match, <<>> without a match
CvssSearch(text) ==
    LET digit_at(p) == FirstOutside(text, p + 4, Whitespace \cup {":"})
        hits == { p \in 1..(Len(text) - 4) :
                      /\ SubSeq(text, p, p + 3) = "cvss"
                      /\ digit_at(p) <= Len(text)
                      /\ IsDigit(Char(text, digit_at(p))) }
    IN IF hits = {} THEN <<>>
       ELSE LET p == CHOOSE q \in hits : \A r \in hits : q <= r
                d == digit_at(p)
            IN << DigitsValue(SubSeq(text, d, FirstOutside(text, d, DigitSet) - 1)) >>

CvssCritical == 9
NotableSize == 3

_guess_category(members, rep) ==
    LET text == Lower(rep.title \o " " \o rep.summary)
        cvss_match == CvssSearch(text)
    IN IF rep.lang = "ja" THEN "jp"
       ELSE IF \E k \in 1..Len(CRITICAL_TERMS) : Contains(text, CRITICAL_TERMS[k])
            THEN "critical"
       ELSE IF (IF cvss_match = <<>> THEN FALSE ELSE cvss_match[1] >= CvssCritical)
            THEN "critical"
       ELSE IF Len(members) >= NotableSize THEN "notable"
       ELSE "general"

\* the entry that summarize builds from a group before it looks at the LLM
\* result; list(set(...)) has no order of its own and is kept as the set
HeuristicEntry(members) ==
    LET rep == members[1]
    IN [title |-> rep.title,
        summary |-> rep.summary,
        category |-> _guess_category(members, rep),
        sources |-> {members[k].source_name : k \in 1..Len(members)} \ {""},
        urls |-> {members[k].url : k \in 1..Len(members)} \ {""},
        cves |-> UNION { extract_cves(members[k].title \o " " \o members[k].summary) :
                             k \in 1..Len(members) },
        source_count |-> Len(members),
        lang |-> rep.lang]


\* if llm_result and "articles" in llm_result and i < len(llm_result["articles"]):
\*     llm_art = llm_result["articles"][i]; entry[...] = llm_art.get(..., entry[...])
\* with the exception that each step raises on a value of another type
WithLlmArticle(llm, k, entry) ==
    IF ~Truthy(llm) THEN entry
    ELSE IF llm.type = "int" THEN Raises("TypeError")
    ELSE IF ~PyIn("articles", llm) THEN entry
    ELSE IF llm.type # "dict" THEN Raises("TypeError")
    ELSE LET arts == DictItem(llm, "articles")
         IN IF arts.type \in {"NoneType", "int"} THEN Raises("TypeError")
            ELSE IF k - 1 >= PyLen(arts) THEN entry
            ELSE IF arts.type = "dict" THEN Raises("KeyError")
            ELSE IF arts.type = "str" THEN Raises("AttributeError")
            ELSE IF arts.value[k].type # "dict" THEN Raises("AttributeError")
            ELSE LET llm_art == arts.value[k]
                 IN [entry EXCEPT
                        !.title = DictGet(llm_art, "title", @),
                        !.summary = DictGet(llm_art, "summary", @),
                        !.category = DictGet(llm_art, "category", @)]

\* what one call of the API comes to: no key in the environment, an
\* exception of the client, a content that json.loads rejects, or a content
\* that it parses
NoKey == [outcome |-> "no_key"]
ApiError == [outcome |-> "exception"]
NotJson == [outcome |-> "not_json"]
Json(v) == [outcome |-> "json", value |-> v]
Content(s) == [outcome |-> "content", content |-> s]
NoContent == [outcome |-> "no_content"]

\* summarizer._call_llm: None without a key and on any exception, what
\* json.loads returns otherwise
_call_llm(reply) == IF reply.outcome = "json" THEN reply.value ELSE PyNone

\* analyzer._llm_call.call: None without a key and on any exception (a
\* message without content included), the stripped content otherwise
call(reply) ==
    IF reply.outcome = "content" THEN PyStr(Strip(reply.content)) ELSE PyNone

LlmArticle(title) ==
    PyDict(<< <<"title", PyStr(title)>>, <<"summary", PyStr("By the model.")>>,
              <<"category", PyStr("notable")>> >>)

SummarizeReplies ==
    << NoKey, ApiError, NotJson, Json(PyNone),
       Json(PyDict(<<>>)),
       Json(PyDict(<< <<"error", PyStr("overloaded")>> >>)),
       Json(PyDict(<< <<"articles", PyList(<<>>)>> >>)),
       Json(PyDict(<< <<"articles", PyList(<< LlmArticle("L1") >>)>> >>)),
       Json(PyDict(<< <<"articles", PyList(<< LlmArticle("L1"),
                                              PyDict(<< <<"title", PyStr("L2")>> >>) >>)>> >>)),
       Json(PyDict(<< <<"articles", PyList(<< LlmArticle("L1"), LlmArticle("L2"),
                                              LlmArticle("L3") >>)>> >>)),
       Json(PyDict(<< <<"articles", PyList(<< LlmArticle("L1"), LlmArticle("L2"),
                                              LlmArticle("L3"), LlmArticle("L4") >>)>> >>)),
       Json(PyDict(<< <<"articles", PyList(<< PyDict(<<>>) >>)>> >>)),
       Json(PyDict(<< <<"articles", PyNone>> >>)),
       Json(PyDict(<< <<"articles", PyInt(5)>> >>)),
       Json(PyDict(<< <<"articles", PyStr("none today")>> >>)),
       Json(PyDict(<< <<"articles", PyList(<< PyStr("L1") >>)>> >>)),
       Json(PyDict(<< <<"articles", PyDict(<< <<"1", LlmArticle("L1")>> >>)>> >>)),
       Json(PyStr("see articles")),
       Json(PyStr("")),
       Json(PyList(<< PyStr("articles") >>)),
       Json(PyList(<< PyInt(1) >>)),
       Json(PyInt(5)),
       Json(PyInt(0)) >>

SuggestReplies ==
    << NoKey, ApiError, NoContent, Content(""), Content("  "),
       Content("Add the feed."), Content(" ## Plan\n- [ ] widen the window \n") >>

SummaryArticle(title, url, summary, source_name, lang) ==
    [title |-> title, url |-> url, summary |-> summary, published |-> <<>>,
     source_feed |-> "https://feeds.example.com/rss", lang |-> lang,
     source_name |-> source_name]

SummaryGroups ==
    { << SummaryArticle("Chrome zero-day fixed", "https://a.example/1",
                        "cve-2025-1111 patched", "CISA", "en") >>,
      << SummaryArticle("JP alert", "https://b.example/2", "", "JPCERT", "ja") >>,
      << SummaryArticle("Vendor breach", "https://c.example/3", "CVSS: 4.0, later CVSS:9.9",
                        "Blog", "en"),
         SummaryArticle("Vendor breached", "", "CVE-2025-2222", "", "en"),
         SummaryArticle("Breach at vendor", "https://c.example/3", "", "Blog", "en") >>,
      << SummaryArticle("Library bug", "https://d.example/4", "Score CVSS:\t9.8 of 10",
                        "NVD", "en") >>,
      << SummaryArticle("Minor fix", "https://e.example/5", "No CVSS yet",
                        "Blog", "en") >> }

LlmConfig == [primary |-> "primary", fallback |-> "fallback"]

SummarizeCalls ==
    { [fn |-> "summarize", groups |-> g, llm_config |-> LlmConfig] :
          g \in ListsUpTo(SummaryGroups, MaxSummaryGroups) }

SuggestCalls ==
    { [fn |-> "generate_suggestions", gaps_with_causes |-> g, llm_config |-> c] :
          g \in SessionGaps, c \in {<<>>, LlmConfig} }

LlmInit ==
    /\ pc = "start"
    /\ \/ call_arg \in SummarizeCalls
       \/ call_arg \in SuggestCalls
    /\ call_ret = <<>>
    /\ OthersIdle
    /\ MachinesIdle

LlmFrame == UNCHANGED <<dvars, cvars, gvars, nvars, digest_file, svars, call_arg>>

\* the call of _call_llm or of call for one of the two configurations
Called(name, value, next) ==
    /\ llm_result' = value
    /\ llm_calls' = Append(llm_calls, [config |-> name, returned |-> value])
    /\ pc' = next
    /\ UNCHANGED <<results, call_ret>>
    /\ LlmFrame


\* if llm_result is None: (the fallback call)
AfterPrimary(value, otherwise) == IF IsNone(value) THEN "fallback" ELSE otherwise

\* llm_result = _call_llm(primary_cfg, groups)
SummarizePrimary ==
    /\ pc = "start" /\ call_arg.fn = "summarize"
    /\ \E k \in 1..Len(SummarizeReplies) :
           LET value == _call_llm(SummarizeReplies[k])
           IN Called("primary", value, AfterPrimary(value, "build"))

\* llm_result = _call_llm(fallback_cfg, groups)
SummarizeFallback ==
    /\ pc = "fallback" /\ call_arg.fn = "summarize"
    /\ \E k \in 1..Len(SummarizeReplies) :
           Called("fallback", _call_llm(SummarizeReplies[k]), "build")

\* the entry of the group at hand, or the exception of the override
NextEntry ==
    WithLlmArticle(llm_result, Len(results) + 1,
                   HeuristicEntry(call_arg.groups[Len(results) + 1]))

\* one round of `for i, group in enumerate(groups)`: results.append(entry)
BuildEntry ==
    /\ pc = "build" /\ Len(results) < Len(call_arg.groups)
    /\ "raises" \notin DOMAIN NextEntry
    /\ results' = Append(results, NextEntry)
    /\ UNCHANGED <<pc, llm_calls, llm_result, call_ret>>
    /\ LlmFrame

\* the round raises and the exception leaves summarize
BuildRaises ==
    /\ pc = "build" /\ Len(results) < Len(call_arg.groups)
    /\ "raises" \in DOMAIN NextEntry
    /\ call_ret' = NextEntry
    /\ pc' = "raised"
    /\ UNCHANGED <<llm_calls, llm_result, results>>
    /\ LlmFrame

\* return results
SummarizeReturn ==
    /\ pc = "build" /\ Len(results) = Len(call_arg.groups)
    /\ call_ret' = results
    /\ pc' = "returned"
    /\ UNCHANGED <<llm_calls, llm_result, results>>
    /\ LlmFrame

\* by_cause of generate_suggestions: the gaps of each cause, in list order
ByCause(gaps_with_causes) ==
    [ c \in {CauseOf(gaps_with_causes[k]) : k \in 1..Len(gaps_with_causes)} |->
          SelectSeq(gaps_with_causes, LAMBDA g : CauseOf(g) = c) ]

\* the report built from the classified gaps alone; the text is represented
\* by what it lists, the number of gaps and the gaps of each cause
heuristic_report(gaps_with_causes) ==
    [type |-> "str", gap_count |-> Len(gaps_with_causes),
     by_cause |-> ByCause(gaps_with_causes)]

\* if not llm_config: return heuristic_report
SuggestNoConfig ==
    /\ pc = "start" /\ call_arg.fn = "generate_suggestions"
    /\ DOMAIN call_arg.llm_config = {}
    /\ call_ret' = heuristic_report(call_arg.gaps_with_causes)
    /\ pc' = "returned"
    /\ UNCHANGED <<llm_calls, llm_result, results>>
    /\ LlmFrame

\* _llm_call: `from openai import OpenAI` raises; return None
SuggestNoClient ==
    /\ pc = "start" /\ call_arg.fn = "generate_suggestions"
    /\ DOMAIN call_arg.llm_config # {}
    /\ llm_result' = PyNone
    /\ pc' = "finish"
    /\ UNCHANGED <<llm_calls, results, call_ret>>
    /\ LlmFrame

\* _llm_call: out = call(primary_cfg)
SuggestPrimary ==
    /\ pc = "start" /\ call_arg.fn = "generate_suggestions"
    /\ DOMAIN call_arg.llm_config # {}
    /\ \E k \in 1..Len(SuggestReplies) :
           LET value == call(SuggestReplies[k])
           IN Called("primary", value, AfterPrimary(value, "finish"))

\* _llm_call: out = call(fallback_cfg)
SuggestFallback ==
    /\ pc = "fallback" /\ call_arg.fn = "generate_suggestions"
    /\ \E k \in 1..Len(SuggestReplies) :
           Called("fallback", call(SuggestReplies[k]), "finish")

\* if llm_text is None: return heuristic_report
\* return llm_text.strip() + "\n"
SuggestReturn ==
    /\ pc = "finish"
    /\ call_ret' = IF IsNone(llm_result)
                   THEN heuristic_report(call_arg.gaps_with_causes)
                   ELSE PyStr(Strip(llm_result.value) \o "\n")
    /\ pc' = "returned"
    /\ UNCHANGED <<llm_calls, llm_result, results>>
    /\ LlmFrame

-----------------------------------------------------------------------------
Init == DedupInit

Next ==
    \/ OuterSkip
    \/ OpenGroup
    \/ InnerSkip
    \/ InnerUrl
    \/ InnerCve
    \/ InnerTitle
    \/ InnerNoMatch
    \/ CloseGroup
    \/ DedupReturn

Spec == Init /\ [][Next]_vars

ClassifyNext ==
    \/ FeedMissing
    \/ FeedPresent
    \/ OutsideWindow
    \/ WindowNext
    \/ WindowEnd
    \/ MergedNoCves
    \/ DedupMerged
    \/ MergedNext
    \/ MergedEnd
    \/ InterestFiltered
    \/ InterestPass
    \/ LowRank
    \/ LowRankNext
    \/ Unknown

SpecClassify == ClassifyInit /\ [][ClassifyNext]_vars

GapsNext ==
    \/ Precompute
    \/ UrlMatched
    \/ UrlUnmatched
    \/ TitleHit
    \/ TitleNext
    \/ AppendGap
    \/ GapsReturn

SpecGaps == GapsInit /\ [][GapsNext]_vars

AnalyzeNext ==
    \/ GapsNext
    \/ ClassifyGap
    \/ ClassifyNext
    \/ AttachCause
    \/ Classified

SpecAnalyze == AnalyzeInit /\ [][AnalyzeNext]_vars

NormalizeNext == NormalizeTitle

SpecNormalize == NormalizeInit /\ [][NormalizeNext]_vars

ExtractNext == ExtractCves

SpecExtract == ExtractInit /\ [][ExtractNext]_vars

PathsNext ==
    \/ Next
    \/ GapsNext

SpecPaths == PathsInit /\ [][PathsNext]_vars

RankNext == RankGroups

SpecRank == RankInit /\ [][RankNext]_vars

PipelineNext ==
    \/ FeedFailed
    \/ EntryDropped
    \/ EntryKept
    \/ FeedDone
    \/ FetchReturn
    \/ Next
    \/ ClockAdvances
    \/ RankAndLoad
    \/ GapsNext
    \/ ClassifyGap
    \/ ClassifyNext
    \/ AttachCause
    \/ Classified

SpecPipeline == PipelineInit /\ [][PipelineNext]_vars

RoundTripNext ==
    \/ WriteDigest
    \/ ParseDigest

SpecRoundTrip == RoundTripInit /\ [][RoundTripNext]_vars

SessionNext ==
    \/ EndOfInput
    \/ Quit
    \/ Help
    \/ List
    \/ Detail
    \/ Suggest
    \/ ShowFix
    \/ ApplyRejected
    \/ ApplyOtherCause
    \/ ApplyWindow
    \/ ApplyInterest
    \/ KeywordEmpty
    \/ KeywordGiven
    \/ ApplyFeed
    \/ Declined
    \/ Apply
    \/ EmptyLine
    \/ UnknownCommand

SpecSession == SessionInit /\ [][SessionNext]_vars

LlmNext ==
    \/ SummarizePrimary
    \/ SummarizeFallback
    \/ BuildEntry
    \/ BuildRaises
    \/ SummarizeReturn
    \/ SuggestNoConfig
    \/ SuggestNoClient
    \/ SuggestPrimary
    \/ SuggestFallback
    \/ SuggestReturn

SpecLlm == LlmInit /\ [][LlmNext]_vars
-----------------------------------------------------------------------------
(* Properties of deduplicate *)

Positions == 1..Len(articles)

\* the groups that hold input position k, as <<group index, member index>>
Places(k) ==
    {<<g, m>> \in (1..Len(groups)) \X (1..MaxArticles + 1) :
        m <= Len(groups[g]) /\ groups[g][m] = k}

GroupOf(k) == (CHOOSE p \in Places(k) : TRUE)[1]

Anchor(g) == groups[g][1]

SameGroup(a, b) == \E g \in 1..Len(groups) :
    /\ \E m \in 1..Len(groups[g]) : groups[g][m] = a
    /\ \E m \in 1..Len(groups[g]) : groups[g][m] = b

\* a or b was consumed by the group of an anchor that precedes both
TakenEarlier(a, b) ==
    \/ Anchor(GroupOf(a)) < Min(a, b)
    \/ Anchor(GroupOf(b)) < Min(a, b)

\* the URLs of the articles at a and b are non-empty and exactly equal
EqualUrls(a, b) ==
    articles[a].url # "" /\ articles[a].url = articles[b].url

\* the title+summary texts of the articles at a and b share a CVE identifier
SharedCve(a, b) ==
    extract_cves(ArticleText(articles[a]))
        \cap extract_cves(ArticleText(articles[b])) # {}

DirectMatch(a, b) ==
    \/ UrlMatch(articles[a], articles[b])
    \/ CveMatch(articles[a], articles[b])
    \/ TitleMatch(articles[a], articles[b])

\* C1: the groups returned by deduplicate partition the input by position: every
\* input position is in exactly one place of exactly one group, no group is
\* empty, and every member is an input position.
C1_Partition ==
    pc = "done" =>
        /\ \A k \in Positions : Cardinality(Places(k)) = 1
        /\ \A g \in 1..Len(groups) : Len(groups[g]) > 0
        /\ \A g \in 1..Len(groups) : \A m \in 1..Len(groups[g]) :
               groups[g][m] \in Positions

\* three articles returned as a group of two and a group of one
C1_Witness ==
    /\ pc = "done" /\ Len(articles) = 3 /\ Len(groups) = 2
    /\ \E g \in 1..2 : Len(groups[g]) = 2

\* C2 as stated: two articles with equal non-empty URLs are always in one group.
C2_AsStated ==
    pc = "done" =>
        \A a, b \in Positions :
            EqualUrls(a, b) => SameGroup(a, b)

\* C2 amended: two articles with equal non-empty URLs are in one group unless
\* one of them was taken into the group of an anchor that precedes both.
C2_UrlGrouping ==
    pc = "done" =>
        \A a, b \in Positions :
            (a # b /\ EqualUrls(a, b))
                => (SameGroup(a, b) \/ TakenEarlier(a, b))

\* equal URLs, no common CVE, dissimilar titles, one group
C2_Witness ==
    /\ pc = "done"
    /\ \E a, b \in Positions :
        /\ a < b /\ EqualUrls(a, b)
        /\ ~SharedCve(a, b)
        /\ ~TitleMatch(articles[a], articles[b])
        /\ Anchor(GroupOf(a)) = a
        /\ SameGroup(a, b)

\* C3 as stated: two articles sharing a CVE identifier are always in one group.
C3_AsStated ==
    pc = "done" =>
        \A a, b \in Positions :
            SharedCve(a, b) => SameGroup(a, b)

\* C3 amended: two articles whose title+summary texts share a CVE identifier are
\* in one group unless one of them was taken into the group of an anchor that
\* precedes both.
C3_CveGrouping ==
    pc = "done" =>
        \A a, b \in Positions :
            (a # b /\ SharedCve(a, b))
                => (SameGroup(a, b) \/ TakenEarlier(a, b))

\* a common CVE (found in a summary), different URLs, dissimilar titles, one group
C3_Witness ==
    /\ pc = "done"
    /\ \E a, b \in Positions :
        /\ a < b /\ SharedCve(a, b)
        /\ ~EqualUrls(a, b)
        /\ ~TitleMatch(articles[a], articles[b])
        /\ extract_cves(articles[a].title) \cap extract_cves(articles[b].title) = {}
        /\ Anchor(GroupOf(a)) = a
        /\ SameGroup(a, b)

\* C4: every non-anchor member of a group, finished or being built, comes after
\* the group's anchor in the input and matches the anchor itself by one of the
\* three rules.
C4_AnchorOnly ==
    /\ \A g \in 1..Len(groups) : \A m \in 2..Len(groups[g]) :
           /\ Anchor(g) < groups[g][m]
           /\ DirectMatch(Anchor(g), groups[g][m])
    /\ \A m \in 2..Len(group) :
           /\ group[1] < group[m]
           /\ DirectMatch(group[1], group[m])

\* an article that matches a non-anchor member of an earlier group, and not the
\* anchor, is left out of that group
C4_Witness ==
    /\ pc = "done"
    /\ \E g \in 1..Len(groups) : \E m \in 2..Len(groups[g]) : \E c \in Positions :
        /\ groups[g][m] < c
        /\ DirectMatch(groups[g][m], c)
        /\ ~DirectMatch(Anchor(g), c)
        /\ GroupOf(c) # g

\* C5: in the output each group lists its members in increasing input position
\* (so its first element is its smallest), the groups are ordered by increasing
\* position of their first element, and the first input article is the first
\* element of the first group.
C5_Order ==
    pc = "done" =>
        /\ \A g \in 1..Len(groups) : \A m, n \in 1..Len(groups[g]) :
               m < n => groups[g][m] < groups[g][n]
        /\ \A g, h \in 1..Len(groups) : g < h => Anchor(g) < Anchor(h)
        /\ Len(articles) > 0 => (Len(groups) > 0 /\ Anchor(1) = 1)

\* the second article is skipped by the first anchor and the third is taken
C5_Witness ==
    pc = "done" /\ groups = << <<1, 3>>, <<2>> >>
-----------------------------------------------------------------------------
(* Properties of classify_gap_cause *)

Causes == {"feed_missing", "outside_window", "dedup_merged",
           "interest_filtered", "low_rank", "unknown"}

Returned == pc = "returned"

\* the domain of the gap URL and the lowercased domains of the feed URLs
GapDomain == Lower(urlparse_netloc(gap.url).netloc)

FeedDomains ==
    {Lower(urlparse_netloc(feeds_config[n].url).netloc) : n \in 1..Len(feeds_config)}

\* the fetched articles whose normalized URL is the gap's normalized URL
SameUrl(n) == _url_norm(articles_fetched[n].url) = _url_norm(gap.url)

\* the CVE identifiers of the title+summary texts of group n
GroupCveSet(n) ==
    UNION { extract_cves(groups_deduped[n][m].title \o " "
                           \o groups_deduped[n][m].summary) :
            m \in 1..Len(groups_deduped[n]) }

\* the groups that share a CVE identifier with the gap title
MergedInto ==
    LET gap_cves == extract_cves(gap.title)
    IN IF gap_cves = {} THEN {}
       ELSE {n \in 1..Len(groups_deduped) : gap_cves \cap GroupCveSet(n) # {}}

\* the entries of a list-valued interest_keywords setting that are not blank
Keywords ==
    IF config.interest_keywords.kind = "list"
    THEN SelectSeq(config.interest_keywords.items, NotBlank)
    ELSE <<>>

Occurs(kw) == Contains(Lower(gap.title), Lower(kw))

\* the conditions of the five rules
Rule1 == GapDomain # "" /\ GapDomain \notin FeedDomains
Rule2 == \E n \in 1..Len(articles_fetched) :
            /\ gap.url # "" /\ SameUrl(n)
            /\ articles_fetched[n].published # <<>>
            /\ articles_fetched[n].published[1] < now - WindowDays(config)
Rule3 == MergedInto # {}
Rule4 == Keywords # <<>> /\ \A n \in 1..Len(Keywords) : ~Occurs(Keywords[n])
Rule5 == \E n \in 1..Len(articles_fetched) : gap.url # "" /\ SameUrl(n)

FirstRule ==
    IF Rule1 THEN "feed_missing"
    ELSE IF Rule2 THEN "outside_window"
    ELSE IF Rule3 THEN "dedup_merged"
    ELSE IF Rule4 THEN "interest_filtered"
    ELSE IF Rule5 THEN "low_rank"
    ELSE "unknown"

\* C6: classify_gap_cause returns one of the six causes, the cause of the first
\* rule, in the fixed order, whose condition holds, and unknown exactly when no
\* rule's condition holds.
C6_FirstMatchWins ==
    Returned =>
        /\ result.cause \in Causes
        /\ result.cause = FirstRule
        /\ (result.cause = "unknown") <=> ~(Rule1 \/ Rule2 \/ Rule3 \/ Rule4 \/ Rule5)

\* an earlier rule wins over later rules whose conditions hold too
C6_Witness ==
    /\ Returned /\ result.cause = "outside_window"
    /\ Rule3 /\ Rule4 /\ Rule5

\* C7: feed_missing is returned iff the gap URL has a non-empty domain that is
\* not among the lowercased domains of the feed URLs, whatever the other inputs
\* are; a gap without a domain is never feed_missing.
C7_FeedMissing ==
    Returned =>
        /\ (result.cause = "feed_missing") <=>
               (GapDomain # "" /\ GapDomain \notin FeedDomains)
        /\ GapDomain = "" => result.cause # "feed_missing"

\* feed_missing, with feeds configured, although the interest rule applies too
C7_Witness ==
    /\ Returned /\ result.cause = "feed_missing"
    /\ feeds_config # <<>>
    /\ Rule4

\* the window the claim reads: window_days, 3 when the key is absent
StatedWindow ==
    IF config.window_days = <<>> THEN DefaultWindowDays ELSE config.window_days[1]

\* C8 as stated: when feed_missing does not fire, outside_window is returned iff
\* a fetched article has the gap's normalized URL and a known timestamp earlier
\* than now minus window_days.
C8_AsStated ==
    (Returned /\ result.cause # "feed_missing") =>
        ((result.cause = "outside_window") <=>
            \E n \in 1..Len(articles_fetched) :
                /\ SameUrl(n)
                /\ articles_fetched[n].published # <<>>
                /\ articles_fetched[n].published[1] < now - StatedWindow)

\* the window the code uses: window_days, 3 when it is absent or 0
EffectiveWindow ==
    IF config.window_days \in {<<>>, <<0>>}
    THEN DefaultWindowDays
    ELSE config.window_days[1]

\* C8 amended: when feed_missing does not fire, outside_window is returned iff
\* the gap URL is non-empty and a fetched article has the gap's normalized URL
\* and a known timestamp earlier than now minus the effective window (window_days,
\* 3 when absent or 0); an absent or in-window timestamp never causes it.
C8_OutsideWindow ==
    (Returned /\ result.cause # "feed_missing") =>
        ((result.cause = "outside_window") <=>
            \E n \in 1..Len(articles_fetched) :
                /\ gap.url # "" /\ SameUrl(n)
                /\ articles_fetched[n].published # <<>>
                /\ articles_fetched[n].published[1] < now - EffectiveWindow)

\* outside_window for the second fetched article, the first one having the same
\* normalized URL and no timestamp
C8_Witness ==
    /\ Returned /\ result.cause = "outside_window"
    /\ Len(articles_fetched) = 2
    /\ SameUrl(1) /\ articles_fetched[1].published = <<>>
    /\ SameUrl(2)

\* C9: when feed_missing and outside_window do not fire, dedup_merged is returned
\* iff the gap title has a CVE identifier that the title+summary texts of some
\* group share; the detail then embeds the title (its first 80 characters) of the
\* first member of the first such group.
C9_DedupMerged ==
    (Returned /\ result.cause \notin {"feed_missing", "outside_window"}) =>
        /\ (result.cause = "dedup_merged") <=>
               (extract_cves(gap.title) # {} /\ MergedInto # {})
        /\ (result.cause = "dedup_merged") =>
               LET first == CHOOSE n \in MergedInto : \A m \in MergedInto : n <= m
                   title == groups_deduped[first][1].title
               IN result.detail =
                      <<SubSeq(title, 1, Min(Len(title), DetailTitleLen))>>

\* the second group is reported, for a CVE found only in a member's summary
C9_Witness ==
    /\ Returned /\ result.cause = "dedup_merged"
    /\ MergedInto = {2}
    /\ extract_cves(groups_deduped[2][1].title) = {}
    /\ result.detail = <<DetailTitle(groups_deduped[2][1].title)>>

\* C10 as stated: when the three earlier rules do not fire, interest_filtered is
\* returned iff the interest_keywords setting is non-empty and none of its
\* keywords occurs in the gap title, letter case ignored.
C10_AsStated ==
    (Returned /\ result.cause \notin {"feed_missing", "outside_window", "dedup_merged"}) =>
        ((result.cause = "interest_filtered") <=>
            /\ config.interest_keywords.items # <<>>
            /\ \A n \in 1..Len(config.interest_keywords.items) :
                   ~Occurs(config.interest_keywords.items[n]))

\* C10 amended: when the three earlier rules do not fire, interest_filtered is
\* returned iff interest_keywords is a list with at least one non-blank entry and
\* none of its non-blank entries occurs in the gap title, letter case ignored;
\* with an empty or absent setting it is never returned.
C10_InterestFiltered ==
    Returned =>
        /\ (result.cause \notin {"feed_missing", "outside_window", "dedup_merged"}) =>
               ((result.cause = "interest_filtered") <=>
                   /\ Keywords # <<>>
                   /\ \A n \in 1..Len(Keywords) : ~Occurs(Keywords[n]))
        /\ config.interest_keywords.items = <<>> => result.cause # "interest_filtered"

\* a keyword that differs from the title only in letter case keeps the gap from
\* being interest_filtered
C10_Witness ==
    /\ Returned /\ result.cause \in {"low_rank", "unknown"}
    /\ Keywords # <<>>
    /\ \E n \in 1..Len(Keywords) : Occurs(Keywords[n]) /\ ~Contains(gap.title, Keywords[n])

EarlierCauses == {"feed_missing", "outside_window", "dedup_merged", "interest_filtered"}

\* C11 as stated: when the four earlier rules do not fire, low_rank is returned
\* iff some fetched article's normalized URL equals the gap's normalized URL.
C11_AsStated ==
    (Returned /\ result.cause \notin EarlierCauses) =>
        ((result.cause = "low_rank") <=> \E n \in 1..Len(articles_fetched) : SameUrl(n))

\* C11 amended: when the four earlier rules do not fire, low_rank is returned iff
\* the gap URL is non-empty and some fetched article's normalized URL equals the
\* gap's normalized URL; in particular a gap with a non-empty URL that was
\* fetched, with no fetched copy published before the window, no matching CVE
\* group and no interest keywords, is low_rank and not unknown.
C11_LowRank ==
    Returned =>
        /\ (result.cause \notin EarlierCauses) =>
               ((result.cause = "low_rank") <=>
                   /\ gap.url # ""
                   /\ \E n \in 1..Len(articles_fetched) : SameUrl(n))
        /\ ( /\ gap.url # "" /\ Keywords = <<>>
             /\ \E n \in 1..Len(articles_fetched) : SameUrl(n)
             /\ ~Rule1 /\ ~Rule2 /\ MergedInto = {} )
               => result.cause = "low_rank"

\* a gap fetched with a timestamp inside the window, with dedup groups present
\* but none sharing a CVE and no keywords configured, comes out as low_rank
C11_Witness ==
    /\ Returned /\ result.cause = "low_rank"
    /\ Keywords = <<>> /\ groups_deduped # <<>> /\ MergedInto = {}
    /\ \E n \in 1..Len(articles_fetched) :
           /\ SameUrl(n) /\ articles_fetched[n].url # gap.url
           /\ articles_fetched[n].published # <<>>
           /\ articles_fetched[n].published[1] >= now - EffectiveWindow

Inputs == <<gap, feeds_config, articles_fetched, groups_deduped, config>>

\* C12: no step of classify_gap_cause changes the gap, the feed configuration,
\* the fetched-article list, the dedup groups or the settings mapping, so at the
\* return they equal their values before the call, whichever cause is returned.
C12_InputsUnchanged == [][Inputs' = Inputs]_vars

\* a call that read every input (feeds, fetched articles, groups, settings) and
\* ran through all five rules to its return
C12_Witness ==
    /\ Returned /\ result.cause \in {"low_rank", "unknown"}
    /\ feeds_config # <<>> /\ articles_fetched # <<>> /\ groups_deduped # <<>>
    /\ Keywords # <<>>
    /\ gap.url # _url_norm(gap.url)

-----------------------------------------------------------------------------
(* Properties of find_gaps *)

GapsDone == gpc = "done"

RefItems == 1..Len(reference_articles)
DigestItems == 1..Len(digest_articles)

\* the URL with surrounding whitespace trimmed and one trailing slash removed
StripOneSlash(u) ==
    LET s == Strip(u)
    IN IF EndsWith(s, "/") THEN SubSeq(s, 1, Len(s) - 1) ELSE s

\* the URL with surrounding whitespace trimmed and every trailing slash removed
TrimmedUrl(u) == RStripSlash(Strip(u))

\* the reference item at n is among the returned gaps
Reported(n) == \E k \in 1..Len(gaps) :
    /\ gaps[k].title = reference_articles[n].title
    /\ gaps[k].url = reference_articles[n].url

\* C13 as stated: a reference item whose URL, trimmed and with one trailing slash
\* removed, equals a digest item's URL normalized the same way is never reported
\* as a gap, whatever the titles are.
C13_AsStated ==
    GapsDone =>
        \A n \in RefItems, m \in DigestItems :
            StripOneSlash(reference_articles[n].url) = StripOneSlash(digest_articles[m].url)
                => ~Reported(n)

\* C13 amended: a reference item whose URL, trimmed and with one trailing slash
\* removed, equals a digest item's URL normalized the same way, and is not empty
\* once its whitespace and trailing slashes are removed, is never reported as a
\* gap, whatever the titles are.
C13_UrlMatch ==
    GapsDone =>
        \A n \in RefItems, m \in DigestItems :
            ( /\ StripOneSlash(reference_articles[n].url)
                   = StripOneSlash(digest_articles[m].url)
              /\ TrimmedUrl(reference_articles[n].url) # "" )
                => ~Reported(n)

\* a reference item kept out of the gaps by its URL alone: the raw URLs differ,
\* and no digest title is similar to its title
C13_Witness ==
    /\ GapsDone
    /\ \E n \in RefItems, m \in DigestItems :
           /\ reference_articles[n].url # digest_articles[m].url
           /\ StripOneSlash(reference_articles[n].url)
                = StripOneSlash(digest_articles[m].url)
           /\ TrimmedUrl(reference_articles[n].url) # ""
           /\ \A d \in DigestItems :
                  ~titles_similar(normalize_title(reference_articles[n].title),
                                  normalize_title(digest_articles[d].title))
           /\ ~Reported(n)

\* the gap record find_gaps builds for a reference item
GapOf(item) == [title |-> item.title, url |-> item.url, matched |-> FALSE]

RECURSIVE GapsOf(_)
GapsOf(items) ==
    IF items = <<>> THEN <<>> ELSE <<GapOf(Head(items))>> \o GapsOf(Tail(items))

\* the matching rule as stated: the normalized URL is a normalized digest URL, or
\* the normalized title is similar to a normalized digest title
StatedMatched(item) ==
    \/ \E m \in DigestItems : TrimmedUrl(item.url) = TrimmedUrl(digest_articles[m].url)
    \/ \E m \in DigestItems :
           titles_similar(normalize_title(item.title),
                          normalize_title(digest_articles[m].title))

\* the matching rule with empty keys left out: the normalized URL is non-empty and
\* a normalized digest URL, or the normalized title is non-empty and similar to a
\* non-empty normalized digest title
NonEmptyMatched(item) ==
    \/ /\ TrimmedUrl(item.url) # ""
       /\ \E m \in DigestItems : TrimmedUrl(item.url) = TrimmedUrl(digest_articles[m].url)
    \/ /\ normalize_title(item.title) # ""
       /\ \E m \in DigestItems :
              /\ normalize_title(digest_articles[m].title) # ""
              /\ titles_similar(normalize_title(item.title),
                                normalize_title(digest_articles[m].title))

Unmatched(item) == ~NonEmptyMatched(item)
StatedUnmatched(item) == ~StatedMatched(item)

\* C14 as stated: find_gaps returns exactly the reference items that are not
\* matched, in reference order, with their original title and URL and
\* matched = false, where matched means the normalized URL is a normalized digest
\* URL or the normalized title is similar to a normalized digest title.
C14_AsStated ==
    GapsDone => gaps = GapsOf(SelectSeq(reference_articles, StatedUnmatched))

\* C14 amended: find_gaps returns exactly the unmatched reference items, in
\* reference order, with their original title and URL and matched = false, where
\* an item is matched iff its normalized URL is non-empty and a normalized digest
\* URL, or its normalized title is non-empty and similar to a non-empty
\* normalized digest title.
C14_Gaps ==
    GapsDone => gaps = GapsOf(SelectSeq(reference_articles, Unmatched))

\* two reference items, the first matched by its title alone, the second returned
\* as the only gap
C14_Witness ==
    /\ GapsDone /\ Len(reference_articles) = 2 /\ Len(gaps) = 1
    /\ gaps[1] = GapOf(reference_articles[2])
    /\ \A m \in DigestItems :
           TrimmedUrl(reference_articles[1].url) # TrimmedUrl(digest_articles[m].url)
    /\ NonEmptyMatched(reference_articles[1])

-----------------------------------------------------------------------------
(* Properties of run_analyze_gap *)

AllClassified == pc = "classified"

\* the domain of a URL: the lowercased network location, "" when there is none
DomainOf(u) == Lower(urlparse_netloc(u).netloc)

\* C15: with an empty digest list every reference item is returned as a gap, in
\* order, and with an empty feed configuration every such gap whose URL has a
\* domain is classified feed_missing, whatever window_days, the fetched articles,
\* the groups and the keywords are.
C15_EndToEnd ==
    (AllClassified /\ digest_articles = <<>>) =>
        /\ Len(gaps) = Len(reference_articles)
        /\ \A k \in 1..Len(gaps) :
               /\ gaps[k].title = reference_articles[k].title
               /\ gaps[k].url = reference_articles[k].url
               /\ (feeds_config = <<>> /\ DomainOf(gaps[k].url) # "")
                      => gaps[k].cause_info.cause = "feed_missing"

\* a run with no digest and no feeds, but fetched articles, groups and keywords,
\* in which the second gap has a domain and is feed_missing and the first has no
\* domain and is classified otherwise
C15_Witness ==
    /\ AllClassified /\ digest_articles = <<>> /\ feeds_config = <<>>
    /\ articles_fetched # <<>> /\ groups_deduped # <<>> /\ Keywords # <<>>
    /\ Len(gaps) = 2
    /\ DomainOf(gaps[1].url) = "" /\ gaps[1].cause_info.cause # "feed_missing"
    /\ DomainOf(gaps[2].url) # "" /\ gaps[2].cause_info.cause = "feed_missing"

-----------------------------------------------------------------------------
(* Properties of normalize_title *)

Normalized == pc = "normalized"

\* s begins with a bracketed tag: "[", then a "]" on the same line
HasLeadingTag(s) == s # "" /\ Char(s, 1) = "[" /\ BracketEnd(s, 2) # 0

\* C16 as stated: normalizing a normalized title changes nothing.
C16_AsStated == Normalized => normalize_title(call_ret) = call_ret

\* C16 amended: normalizing a normalized title changes nothing, provided the
\* normalized title does not itself begin with a bracketed tag (as it does when
\* the title began with several bracketed tags, of which only the first is
\* removed); stacked source suffixes do not matter.
C16_Idempotent ==
    (Normalized /\ ~HasLeadingTag(call_ret)) => normalize_title(call_ret) = call_ret

\* a title with a bracketed tag and stacked suffixes, changed by the first
\* normalization and not by the second
C16_Witness ==
    /\ Normalized
    /\ \E tag \in TagPool, s1 \in SuffixPool, s2 \in SuffixPool :
           call_arg = tag \o "Big Vuln" \o s1 \o s2
    /\ ~HasLeadingTag(call_ret)
    /\ call_ret # call_arg
    /\ normalize_title(call_ret) = call_ret

\* t without the first entry of the suffix table, in table order, that it ends
\* with; t itself when it ends with none
RECURSIVE StripFirstSuffix(_, _)
StripFirstSuffix(t, k) ==
    IF k > Len(SOURCE_SUFFIXES) THEN t
    ELSE IF EndsWith(t, SOURCE_SUFFIXES[k])
         THEN SubSeq(t, 1, Len(t) - Len(SOURCE_SUFFIXES[k]))
         ELSE StripFirstSuffix(t, k + 1)

\* C17: normalize_title removes at most one suffix, the first table entry the
\* trimmed title ends with (of two stacked suffixes the inner one is kept), then
\* exactly one leading bracketed tag, and lowercases and trims the result.
C17_AsStated ==
    Normalized =>
        call_ret = Strip(Lower(StripBracketTag(StripFirstSuffix(Strip(call_arg), 1))))

-----------------------------------------------------------------------------
(* Properties of extract_cves *)

Extracted == pc = "extracted"

\* at position p of s stands "CVE-", four digits, "-" and a run of exactly n digits
\* that no further digit follows
IdentifierAt(s, p, n) ==
    /\ p + 8 + n <= Len(s)
    /\ SubSeq(s, p, p + 3) = "CVE-"
    /\ \A k \in (p + 4)..(p + 7) : IsDigit(Char(s, k))
    /\ Char(s, p + 8) = "-"
    /\ \A k \in (p + 9)..(p + 8 + n) : IsDigit(Char(s, k))
    /\ (p + 9 + n <= Len(s)) => ~IsDigit(Char(s, p + 9 + n))

\* the identifiers CVE-YYYY-N, N of 4 to 7 digits, that occur in the text in any
\* letter case, in uppercase
StatedCves(txt) ==
    LET s == Upper(txt)
    IN { SubSeq(s, q[1], q[1] + 8 + q[2]) :
            q \in { c \in (1..Len(s)) \X (4..7) : IdentifierAt(s, c[1], c[2]) } }

\* C18: extract_cves returns exactly the set of identifiers CVE-YYYY-N (YYYY four
\* digits, N four to seven digits) that occur in the text in any letter case, in
\* uppercase, and never a part of a longer digit run.
C18_AsStated == Extracted => call_ret = StatedCves(call_arg)

-----------------------------------------------------------------------------
(* Properties of rank_groups *)

\* the number of members plus twice the number of members from a trusted source
StatedScore(grp, trusted) ==
    Len(grp) + 2 * Cardinality({m \in 1..Len(grp) : grp[m].source_name \in trusted})

\* b holds the elements of a, each as often as a does
IsPermutation(a, b) ==
    /\ Len(a) = Len(b)
    /\ \E f \in [1..Len(a) -> 1..Len(a)] :
           /\ \A x, y \in 1..Len(a) : x # y => f[x] # f[y]
           /\ \A x \in 1..Len(a) : b[x] = a[f[x]]

NonIncreasing(gs, trusted) ==
    \A k \in 1..(Len(gs) - 1) : StatedScore(gs[k], trusted) >= StatedScore(gs[k + 1], trusted)

\* C19: the list rank_groups returns is a permutation of the groups it was given
\* (same groups with the same members, none added or dropped), in non-increasing
\* order of score = members + 2 * members whose source_name is trusted.
C19_Ranked ==
    [][pc = "rank" =>
          /\ IsPermutation(call_arg.groups, call_ret')
          /\ NonIncreasing(call_ret', call_arg.trusted_sources)]_vars

\* three groups returned with strictly falling scores, the first ahead of a
\* larger group because of its trusted members
C19_Witness ==
    /\ pc = "ranked" /\ Len(call_ret) = 3
    /\ Len(call_ret[1]) < Len(call_ret[2])
    /\ StatedScore(call_ret[1], call_arg.trusted_sources)
         > StatedScore(call_ret[2], call_arg.trusted_sources)
    /\ StatedScore(call_ret[2], call_arg.trusted_sources)
         > StatedScore(call_ret[3], call_arg.trusted_sources)

-----------------------------------------------------------------------------
(* Properties of the two title-matching paths *)

\* both functions have returned on a list of two articles with different URLs
\* and no CVE identifier
TwoTitles ==
    /\ pc = "done" /\ gpc = "done"
    /\ Len(articles) = 2
    /\ TrimmedUrl(articles[1].url) # TrimmedUrl(articles[2].url)
    /\ extract_cves(ArticleText(articles[1])) = {}
    /\ extract_cves(ArticleText(articles[2])) = {}

Grouped == Len(groups) = 1
MatchedByTitle == gaps = <<>>

BothTitlesEmpty ==
    /\ normalize_title(articles[1].title) = ""
    /\ normalize_title(articles[2].title) = ""

\* C20 as stated: for two titles with different URLs and no CVEs, deduplicate
\* puts the two articles in one group iff find_gaps treats the first as matched
\* by the second, also when the normalized titles are empty.
C20_AsStated == TwoTitles => (Grouped <=> MatchedByTitle)

\* C20 amended: for two titles with different URLs and no CVEs, deduplicate puts
\* the two articles in one group iff find_gaps treats the first as matched by the
\* second, unless both normalized titles are empty: then deduplicate groups the
\* two articles and find_gaps reports the first as a gap.
C20_SamePaths ==
    TwoTitles =>
        IF BothTitlesEmpty
        THEN Grouped /\ ~MatchedByTitle
        ELSE Grouped <=> MatchedByTitle

\* two titles that differ as written and are similar once normalized: grouped by
\* deduplicate and matched by find_gaps
C20_Witness ==
    /\ TwoTitles /\ ~BothTitlesEmpty
    /\ ~titles_similar(articles[1].title, articles[2].title)
    /\ Grouped /\ MatchedByTitle

\* C21: rank_groups leaves the list it was given unchanged: after the call the
\* caller's list of groups has the same order as before, the ranking being
\* visible only in the returned list.
C21_AsStated == [][pc = "rank" => call_arg'.groups = call_arg.groups]_vars
-----------------------------------------------------------------------------
(* Properties of fetch_feeds and of the analyze-gap pipeline *)

Fetched == pc # "fetch"

Deduplicated == pc \notin {"fetch", "outer", "inner"}

\* the entries of the feeds 1..k that could be read, as <<feed, entry>> positions,
\* in feed order and in entry order
RECURSIVE EntryPlaces(_)
EntryPlaces(k) ==
    IF k = 0 THEN <<>>
    ELSE EntryPlaces(k - 1) \o
         (IF parsed_feeds[k].ok
          THEN [e \in 1..Len(parsed_feeds[k].entries) |-> <<k, e>>]
          ELSE <<>>)

EntryAt(place) == parsed_feeds[place[1]].entries[place[2]]

\* the times read from the date fields of an entry
KnownTimes(entry) ==
    {f.value[1] : f \in {g \in {entry.published, entry.updated, entry.created} :
                             g.value # <<>>}}

\* an entry with a known time before the cutoff of the fetch
KnownTooOld(place) ==
    _parse_date(EntryAt(place)) # <<>> /\ _parse_date(EntryAt(place))[1] < cutoff

InWindow(place) == ~KnownTooOld(place)

KeptPlaces == SelectSeq(EntryPlaces(Len(feeds_config)), InWindow)

CausesGiven == {n \in 1..Len(gaps) : "cause_info" \in DOMAIN gaps[n]}

\* C22: an article is never excluded because its published time is unknown.
\* fetch_feeds returns exactly the entries that have no known time before the
\* cutoff (now minus window_days at the fetch), in feed order, so every entry
\* without a parseable date is kept; deduplicate puts every fetched article
\* into a group; and a gap is classified outside_window only when a fetched
\* article with the gap's URL has a known time before the classifier's cutoff.
C22_UnknownRecency ==
    /\ pc = "fetch" => cutoff = now - FetchWindowDays(config)
    /\ Fetched =>
          /\ Len(fetch_articles) = Len(KeptPlaces)
          /\ \A n \in 1..Len(KeptPlaces) :
                 fetch_articles[n] =
                     Article(EntryAt(KeptPlaces[n]), feeds_config[KeptPlaces[n][1]])
          /\ \A n \in 1..Len(EntryPlaces(Len(feeds_config))) :
                 LET place == EntryPlaces(Len(feeds_config))[n]
                 IN KnownTimes(EntryAt(place)) = {} =>
                        \E m \in 1..Len(KeptPlaces) : KeptPlaces[m] = place
    /\ Deduplicated =>
          \A k \in 1..Len(articles) :
              \E g \in 1..Len(groups) : \E m \in 1..Len(groups[g]) : groups[g][m] = k
    /\ \A n \in CausesGiven :
          gaps[n].cause_info.cause = "outside_window" =>
              \E a \in 1..Len(articles_fetched) :
                  /\ _url_norm(articles_fetched[a].url) = _url_norm(gaps[n].url)
                  /\ articles_fetched[a].published # <<>>
                  /\ articles_fetched[a].published[1] < now - WindowDays(config)

\* a run in which an entry was dropped, an entry without a known time was kept
\* and grouped, and the gap with that entry's URL got a cause
C22_Witness ==
    /\ pc = "classified"
    /\ Len(fetch_articles) < Len(EntryPlaces(Len(feeds_config)))
    /\ \E n \in CausesGiven : \E a \in 1..Len(articles_fetched) :
           /\ articles_fetched[a].published = <<>>
           /\ _url_norm(articles_fetched[a].url) = _url_norm(gaps[n].url)
           /\ gaps[n].cause_info.cause # "outside_window"

\* the clock reads at the classification what it read at the fetch
ClockSame == cutoff = now - FetchWindowDays(config)

\* C25: in run_analyze_gap the classifier is given the output of fetch_feeds
\* for the same window_days; as long as the clock has not advanced since the
\* fetch, no call of classify_gap_cause returns outside_window and no gap
\* carries that cause.
C25_NeverOutsideWindow ==
    ClockSame =>
        /\ pc = "returned" => result.cause # "outside_window"
        /\ \A n \in CausesGiven : gaps[n].cause_info.cause # "outside_window"

\* a finished run without a clock change in which fetch_feeds dropped an entry
\* that was known to be too old and the reference item with that entry's URL
\* became a gap with a cause
C25_Witness ==
    /\ pc = "classified" /\ ClockSame
    /\ \E n \in CausesGiven : \E m \in 1..Len(EntryPlaces(Len(feeds_config))) :
           LET place == EntryPlaces(Len(feeds_config))[m]
           IN /\ KnownTooOld(place)
              /\ _url_norm(Strip(EntryAt(place).link)) = _url_norm(gaps[n].url)

-----------------------------------------------------------------------------
(* Properties of find_gaps under reordering of the digest list *)

\* the orders of the positions 1..n
Orders(n) == {p \in [1..n -> 1..n] : \A a, b \in 1..n : p[a] = p[b] => a = b}

\* the lists that hold the items of list in another order
Reorderings(list) == {[n \in 1..Len(list) |-> list[p[n]]] : p \in Orders(Len(list))}

\* C26: the gaps that find_gaps returns do not depend on the order of the digest
\* list: called with the same reference list and any permutation of the digest
\* list, it returns the very sequence of gaps of the run.
C26_DigestOrder ==
    GapsDone =>
        \A digest \in Reorderings(digest_articles) :
            find_gaps(reference_articles, digest) = gaps

\* a run with two different digest items in which a reference item is matched
\* by the second digest title only, and another reference item is a gap
C26_Witness ==
    /\ GapsDone
    /\ Len(digest_articles) = 2 /\ digest_articles[1] # digest_articles[2]
    /\ gaps # <<>>
    /\ \E n \in 1..Len(reference_articles) :
           LET item == reference_articles[n]
           IN /\ ~(_url_norm(item.url) # "" /\ _url_norm(item.url) \in digest_urls)
              /\ ~TitleMatches(normalize_title(item.title), digest_titles_norm[1])
              /\ TitleMatches(normalize_title(item.title), digest_titles_norm[2])

-----------------------------------------------------------------------------
(* Properties of the digest round trip *)

Parsed == pc = "parsed"

\* the articles in the order in which format_digest writes them
RECURSIVE OutputOrder(_, _)
OutputOrder(arts, c) ==
    IF c > Len(CATEGORY_ORDER) THEN <<>>
    ELSE SortedByCount(ByCat(arts, CATEGORY_ORDER[c])) \o OutputOrder(arts, c + 1)

\* one record per URL in urls, under the title
RECURSIVE Pairs(_, _)
Pairs(title, urls) ==
    IF urls = <<>> THEN <<>>
    ELSE << [title |-> title, url |-> Head(urls)] >> \o Pairs(title, Tail(urls))

\* for each article its title paired with each of its first three URLs
RECURSIVE StatedRecords(_)
StatedRecords(items) ==
    IF items = <<>> THEN <<>>
    ELSE Pairs(Head(items).title, FirstUrls(Head(items))) \o StatedRecords(Tail(items))

HttpUrl(u) ==
    \/ StartsWith(u, "http://") /\ Len(u) > Len("http://")
    \/ StartsWith(u, "https://") /\ Len(u) > Len("https://")

\* the first three URLs of an article that are HTTP URLs
HttpUrls(art) == SelectSeq(FirstUrls(art), HttpUrl)

\* for each article with a title that is not blank, the stripped title paired
\* with each HTTP URL among its first three URLs
RECURSIVE TitledRecords(_)
TitledRecords(items) ==
    IF items = <<>> THEN <<>>
    ELSE (IF Strip(Head(items).title) = "" THEN <<>>
          ELSE Pairs(Strip(Head(items).title), HttpUrls(Head(items))))
         \o TitledRecords(Tail(items))

\* one record per HTTP URL among the first three URLs of each article, the URL
\* standing for the title
RECURSIVE LinkRecords(_)
LinkRecords(items) ==
    IF items = <<>> THEN <<>>
    ELSE LET urls == HttpUrls(Head(items))
         IN [k \in 1..Len(urls) |-> [title |-> urls[k], url |-> urls[k]]]
            \o LinkRecords(Tail(items))

-----------------------------------------------------------------------------
(* Properties of interactive_session *)

ApplicableCauses == {"outside_window", "interest_filtered", "feed_missing"}

\* the configuration in memory or the configuration file changes in the step
ConfigurationChanges ==
    config' # config \/ feeds_config' # feeds_config \/ config_file' # config_file

\* C23: in interactive_session the configuration in memory and the
\* configuration file change only in the step that reads y or yes at the
\* confirmation prompt of an `apply <n>` command with 1 <= n <= number of gaps
\* whose gap has the cause outside_window, interest_filtered or feed_missing;
\* every other step leaves both unchanged, and no step changes the gap list.
C23_OnlyConfirmedApply ==
    [][/\ gaps' = gaps
       /\ ConfigurationChanges =>
              /\ pc = "confirm"
              /\ Confirmed(input_line')
              /\ cmd.name = "apply" /\ InRange(cmd)
              /\ CauseOf(gaps[NumberOf(cmd)[1]]) \in ApplicableCauses]_vars

\* a session in which a change was applied to the file and a later change was
\* declined at the confirmation prompt
C23_Witness ==
    /\ pc = "prompt"
    /\ config_file # LoadedFile
    /\ output = "Canceled."
    /\ new_config.config # config

-----------------------------------------------------------------------------
(* Properties of the LLM calls of summarize and generate_suggestions *)

\* the primary configuration is called first, the fallback at most once and
\* only after the primary returned None
LlmCallOrder ==
    /\ Len(llm_calls) <= 2
    /\ Len(llm_calls) >= 1 => llm_calls[1].config = "primary"
    /\ Len(llm_calls) = 2 =>
           llm_calls[2].config = "fallback" /\ IsNone(llm_calls[1].returned)

\* what the function returned is the heuristic output and nothing else
OnlyHeuristic ==
    IF call_arg.fn = "summarize"
    THEN /\ Len(call_arg.groups) > 0
         /\ call_ret = [k \in 1..Len(call_arg.groups) |-> HeuristicEntry(call_arg.groups[k])]
    ELSE call_ret = heuristic_report(call_arg.gaps_with_causes)

HeuristicOnlyAfterNone ==
    pc = "returned" /\ OnlyHeuristic =>
        \A k \in 1..Len(llm_calls) : IsNone(llm_calls[k].returned)

\* summarize ends by returning one entry for each group, in group order
OneEntryPerGroup ==
    call_arg.fn = "summarize" =>
        /\ pc # "raised"
        /\ pc = "returned" =>
               /\ Len(call_ret) = Len(call_arg.groups)
               /\ \A k \in 1..Len(call_ret) :
                      LET entry == HeuristicEntry(call_arg.groups[k])
                      IN /\ call_ret[k].source_count = entry.source_count
                         /\ call_ret[k].urls = entry.urls
                         /\ call_ret[k].sources = entry.sources
                         /\ call_ret[k].cves = entry.cves

\* C24, as stated: summarize and generate_suggestions call the primary LLM
\* first and the fallback LLM only when the primary produced no result, the
\* fallback is never called after a successful primary call, the heuristic
\* output is what comes back only when every call made produced none, and
\* summarize returns exactly one entry per input group, in group order,
\* whatever the LLM calls return
C24_AsStated ==
    /\ LlmCallOrder
    /\ HeuristicOnlyAfterNone
    /\ OneEntryPerGroup

=============================================================================
